---- MODULE Spec2Model ----
(***************************************************************************)
(* Certificate codec and object model of CardanoC:                         *)
(*   src/ThirdParty/CardanoC/src/certs/update_drep_cert.c                  *)
(* which holds update_drep_cert.c (lines 1-391) and                        *)
(* stake_registration_cert.c (lines 393-688).                              *)
(*                                                                         *)
(* The CBOR reader and writer, the validation helpers, the object base and *)
(* the credential and anchor children are collaborators whose code is not  *)
(* part of these files; they are modelled from their interface.            *)
(***************************************************************************)
EXTENDS Integers, Sequences, FiniteSets, TLC

VARIABLES heap, certp, childp, scriptp, reader, writer, last

vars == <<heap, certp, childp, scriptp, reader, writer, last>>

(***************************************************************************)
(* Bounds.                                                                 *)
(***************************************************************************)
MaxObjs == 6
MaxArrayLen == 3
NumHashes == 1
NumUrls == 1
MaxRefs == 2
MaxScripts == 1
MaxCells == 5
MaxRequired == 2

(***************************************************************************)
(* Program constants.                                                      *)
(***************************************************************************)
NULL == 0
UPDATE_DREP_EMBEDDED_GROUP_SIZE == 3
STAKE_REGISTRATION_EMBEDDED_GROUP_SIZE == 2
CARDANO_CERT_TYPE_STAKE_REGISTRATION == 0
CARDANO_CERT_TYPE_UPDATE_DREP == 18
CARDANO_CREDENTIAL_TYPE_KEY_HASH == 0
CARDANO_CREDENTIAL_TYPE_SCRIPT_HASH == 1
CREDENTIAL_GROUP_SIZE == 2
ANCHOR_GROUP_SIZE == 2

(***************************************************************************)
(* Error codes (cardano_error_t).                                          *)
(***************************************************************************)
CARDANO_SUCCESS == "CARDANO_SUCCESS"
CARDANO_ERROR_POINTER_IS_NULL == "CARDANO_ERROR_POINTER_IS_NULL"
CARDANO_ERROR_MEMORY_ALLOCATION_FAILED == "CARDANO_ERROR_MEMORY_ALLOCATION_FAILED"
CARDANO_ERROR_DECODING == "CARDANO_ERROR_DECODING"
CARDANO_ERROR_UNEXPECTED_CBOR_TYPE == "CARDANO_ERROR_UNEXPECTED_CBOR_TYPE"
\* the three schema violations of the validation helpers
SCHEMA_ARRAY_ARITY == "SCHEMA_VIOLATION_ARRAY_ARITY"
SCHEMA_DISCRIMINANT == "SCHEMA_VIOLATION_DISCRIMINANT"
SCHEMA_END_OF_ARRAY == "SCHEMA_VIOLATION_END_OF_ARRAY"

\* Call sites of cardano_*_cert_from_cbor, in the order of the source text.
DecodeSites == {"arity", "disc", "cred", "peek", "null", "anchor", "new", "end"}
\* Call sites of cardano_*_cert_to_cbor.
EncodeSites == {"w_start_array", "w_type", "w_credential", "w_anchor", "w_null"}

\* The error a collaborator reports when it fails at a call site for a
\* reason of its own (I/O, capacity, memory): one distinct code per site.
FaultErr(site) ==
  CASE site = "arity"       -> "FAULT_AT_ARITY"
    [] site = "disc"        -> "FAULT_AT_DISC"
    [] site = "cred"        -> "FAULT_AT_CRED"
    [] site = "peek"        -> "FAULT_AT_PEEK"
    [] site = "null"        -> "FAULT_AT_READ_NULL"
    [] site = "anchor"      -> "FAULT_AT_ANCHOR"
    [] site = "end"         -> "FAULT_AT_END"
    [] site = "w_start_array" -> "FAULT_AT_WRITE_START_ARRAY"
    [] site = "w_type"        -> "FAULT_AT_WRITE_TYPE"
    [] site = "w_credential"  -> "FAULT_AT_WRITE_CREDENTIAL"
    [] site = "w_anchor"      -> "FAULT_AT_WRITE_ANCHOR"
    [] site = "w_null"        -> "FAULT_AT_WRITE_NULL"
    [] OTHER                  -> "FAULT"

(***************************************************************************)
(* CBOR items as tokens: [k |-> kind, v |-> value].  An array token        *)
(* carries its definite length and is followed by its elements.            *)
(***************************************************************************)
Tok(k, v) == [k |-> k, v |-> v]

Hashes == 1..NumHashes
Urls == 1..NumUrls
CredentialTypes == {CARDANO_CREDENTIAL_TYPE_KEY_HASH, CARDANO_CREDENTIAL_TYPE_SCRIPT_HASH}

\* payload of a credential: (type, hash); of an anchor: (url, hash)
CredentialValues == {[f1 |-> t, f2 |-> x] : t \in CredentialTypes, x \in Hashes}
AnchorValues == {[f1 |-> u, f2 |-> x] : u \in Urls, x \in Hashes}

(***************************************************************************)
(* CBOR reader: tokens, cursor, the remaining element counts of the open   *)
(* definite-length arrays (innermost first), and the call site at which    *)
(* the reader fails for a reason of its own ("none": it never does).       *)
(***************************************************************************)
cardano_cbor_reader_new(toks, fault) ==
  [toks |-> toks, pos |-> 1, stack |-> <<>>, fault |-> fault]

ReaderAdvance(rd) ==
  [rd EXCEPT !.pos = @ + 1,
             !.stack = IF @ = <<>> THEN @ ELSE <<Head(@) - 1>> \o Tail(@)]

StateOfKind(k) ==
  CASE k = "arr"   -> "START_ARRAY"
    [] k = "uint"  -> "UNSIGNED_INTEGER"
    [] k = "bytes" -> "BYTESTRING"
    [] k = "text"  -> "TEXTSTRING"
    [] k = "null"  -> "NULL"
    [] OTHER       -> "UNDEFINED"

cardano_cbor_reader_peek_state(rd) ==
  IF rd.stack # <<>> /\ Head(rd.stack) = 0
    THEN [err |-> CARDANO_SUCCESS, state |-> "END_ARRAY"]
  ELSE IF rd.pos > Len(rd.toks)
    THEN IF rd.stack = <<>>
           THEN [err |-> CARDANO_SUCCESS, state |-> "FINISHED"]
           ELSE [err |-> CARDANO_ERROR_DECODING, state |-> "UNDEFINED"]
  ELSE IF rd.toks[rd.pos].k = "bad"
    THEN [err |-> CARDANO_ERROR_DECODING, state |-> "UNDEFINED"]
  ELSE [err |-> CARDANO_SUCCESS, state |-> StateOfKind(rd.toks[rd.pos].k)]

\* read one scalar item of the kind whose peek state is st; p is the peek
ReadScalarPeeked(p, rd, st) ==
  IF p.err # CARDANO_SUCCESS THEN [err |-> p.err, rd |-> rd, val |-> 0]
  ELSE IF p.state # st
    THEN [err |-> CARDANO_ERROR_UNEXPECTED_CBOR_TYPE, rd |-> rd, val |-> 0]
  ELSE [err |-> CARDANO_SUCCESS, rd |-> ReaderAdvance(rd), val |-> rd.toks[rd.pos].v]

ReadScalar(rd, st) == ReadScalarPeeked(cardano_cbor_reader_peek_state(rd), rd, st)

cardano_cbor_reader_read_uint(rd) == ReadScalar(rd, "UNSIGNED_INTEGER")
cardano_cbor_reader_read_bytestring(rd) == ReadScalar(rd, "BYTESTRING")
cardano_cbor_reader_read_textstring(rd) == ReadScalar(rd, "TEXTSTRING")
cardano_cbor_reader_read_null(rd) == ReadScalar(rd, "NULL")

\* the array header is consumed as an element of the enclosing array and
\* opens an array of its own
ReadStartArrayPeeked(p, rd) ==
  IF p.err # CARDANO_SUCCESS THEN [err |-> p.err, rd |-> rd, val |-> 0]
  ELSE IF p.state # "START_ARRAY"
    THEN [err |-> CARDANO_ERROR_UNEXPECTED_CBOR_TYPE, rd |-> rd, val |-> 0]
  ELSE [err |-> CARDANO_SUCCESS,
        rd  |-> [rd EXCEPT !.pos = @ + 1,
                           !.stack = <<rd.toks[rd.pos].v>> \o
                                     (IF @ = <<>> THEN @ ELSE <<Head(@) - 1>> \o Tail(@))],
        val |-> rd.toks[rd.pos].v]

cardano_cbor_reader_read_start_array(rd) ==
  ReadStartArrayPeeked(cardano_cbor_reader_peek_state(rd), rd)

ReadEndArrayPeeked(p, rd) ==
  IF p.err # CARDANO_SUCCESS THEN [err |-> p.err, rd |-> rd, val |-> 0]
  ELSE IF p.state # "END_ARRAY"
    THEN [err |-> SCHEMA_END_OF_ARRAY, rd |-> rd, val |-> 0]
  ELSE [err |-> CARDANO_SUCCESS, rd |-> [rd EXCEPT !.stack = Tail(@)], val |-> 0]

cardano_cbor_reader_read_end_array(rd) ==
  ReadEndArrayPeeked(cardano_cbor_reader_peek_state(rd), rd)

(***************************************************************************)
(* Validation helpers (cbor_validation.h).                                 *)
(***************************************************************************)
ExpectLength(r, n) ==
  IF r.err # CARDANO_SUCCESS THEN r
  ELSE IF r.val # n THEN [r EXCEPT !.err = SCHEMA_ARRAY_ARITY]
  ELSE r

cardano_cbor_validate_array_of_n_elements(rd, n) ==
  ExpectLength(cardano_cbor_reader_read_start_array(rd), n)

ExpectValue(r, expected) ==
  IF r.err # CARDANO_SUCCESS THEN r
  ELSE IF r.val # expected THEN [r EXCEPT !.err = SCHEMA_DISCRIMINANT]
  ELSE r

cardano_cbor_validate_enum_value(rd, expected) ==
  ExpectValue(cardano_cbor_reader_read_uint(rd), expected)

cardano_cbor_validate_end_array(rd) == cardano_cbor_reader_read_end_array(rd)

\* A collaborator call at a site of a certificate decoder: it fails with
\* the site's own error when the reader is set to fail there, and otherwise
\* behaves as the collaborator does on the input.
AtSite(site, rd, res) ==
  IF rd.fault = site
    THEN [err |-> FaultErr(site), rd |-> rd, val |-> 0]
    ELSE res

PeekAtSite(rd) ==
  IF rd.fault = "peek"
    THEN [err |-> FaultErr("peek"), state |-> "UNDEFINED"]
    ELSE cardano_cbor_reader_peek_state(rd)

(***************************************************************************)
(* Heap of reference-counted objects.  Every object embeds the object base *)
(* (ref_count); credentials and anchors carry a two-field payload, the     *)
(* certificates carry the pointers to their children, a native script that *)
(* has sub-scripts carries the pointer to their list, and a script list    *)
(* carries the pointers to its elements in order.                          *)
(***************************************************************************)
Ids == 1..MaxObjs

FreeObj ==
  [kind |-> "free", ref_count |-> 0, f1 |-> 0, f2 |-> 0,
   credential |-> NULL, anchor |-> NULL, scripts |-> NULL, items |-> <<>>]

FreeIds(h) == {i \in Ids : h[i].kind = "free"}

\* the allocator hands out the lowest free cell, NULL when there is none
cardano_malloc(h) ==
  IF FreeIds(h) = {} THEN NULL
  ELSE CHOOSE i \in FreeIds(h) : \A j \in FreeIds(h) : i <= j

Live(h, p) == p # NULL /\ h[p].kind # "free"

\* cardano_object_ref / cardano_object_unref applied to a leaf child
cardano_object_ref(h, p) ==
  IF p = NULL THEN h ELSE [h EXCEPT ![p].ref_count = @ + 1]

LeafUnref(h, p) ==
  IF p = NULL THEN h
  ELSE IF h[p].ref_count > 1 THEN [h EXCEPT ![p].ref_count = @ - 1]
  ELSE [h EXCEPT ![p] = FreeObj]

cardano_credential_ref(h, p) == cardano_object_ref(h, p)
cardano_credential_unref(h, p) == LeafUnref(h, p)
cardano_anchor_ref(h, p) == cardano_object_ref(h, p)
cardano_anchor_unref(h, p) == LeafUnref(h, p)

\* a new leaf object of the given kind and payload in cell id
LeafInit(h, id, kind, v) ==
  IF id = NULL THEN [err |-> CARDANO_ERROR_MEMORY_ALLOCATION_FAILED, heap |-> h, val |-> NULL]
  ELSE [err  |-> CARDANO_SUCCESS,
        heap |-> [h EXCEPT ![id] = [kind |-> kind, ref_count |-> 1,
                                    f1 |-> v.f1, f2 |-> v.f2,
                                    credential |-> NULL, anchor |-> NULL,
                                    scripts |-> NULL, items |-> <<>>]],
        val  |-> id]

cardano_credential_new(h, v) == LeafInit(h, cardano_malloc(h), "credential", v)
cardano_anchor_new(h, v) == LeafInit(h, cardano_malloc(h), "anchor", v)

(***************************************************************************)
(* Child codecs: a credential is the array [type, hash], an anchor the     *)
(* array [url, hash].  Each step is given the outcome of the step before.  *)
(***************************************************************************)
ChildFail(err, rd, h) == [err |-> err, rd |-> rd, heap |-> h, val |-> NULL]

ChildDone(n, rd) == [err |-> n.err, rd |-> rd, heap |-> n.heap, val |-> n.val]

CredentialAfterEnd(e, h, type, hash) ==
  IF e.err # CARDANO_SUCCESS THEN ChildFail(e.err, e.rd, h)
  ELSE ChildDone(cardano_credential_new(h, [f1 |-> type, f2 |-> hash]), e.rd)

CredentialAfterHash(b, h, type) ==
  IF b.err # CARDANO_SUCCESS THEN ChildFail(b.err, b.rd, h)
  ELSE CredentialAfterEnd(cardano_cbor_validate_end_array(b.rd), h, type, b.val)

CredentialAfterType(t, h) ==
  IF t.err # CARDANO_SUCCESS THEN ChildFail(t.err, t.rd, h)
  ELSE IF t.val \notin CredentialTypes THEN ChildFail(SCHEMA_DISCRIMINANT, t.rd, h)
  ELSE CredentialAfterHash(cardano_cbor_reader_read_bytestring(t.rd), h, t.val)

CredentialAfterArray(a, h) ==
  IF a.err # CARDANO_SUCCESS THEN ChildFail(a.err, a.rd, h)
  ELSE CredentialAfterType(cardano_cbor_reader_read_uint(a.rd), h)

cardano_credential_from_cbor(rd, h) ==
  CredentialAfterArray(cardano_cbor_validate_array_of_n_elements(rd, CREDENTIAL_GROUP_SIZE), h)

AnchorAfterEnd(e, h, url, hash) ==
  IF e.err # CARDANO_SUCCESS THEN ChildFail(e.err, e.rd, h)
  ELSE ChildDone(cardano_anchor_new(h, [f1 |-> url, f2 |-> hash]), e.rd)

AnchorAfterHash(b, h, url) ==
  IF b.err # CARDANO_SUCCESS THEN ChildFail(b.err, b.rd, h)
  ELSE AnchorAfterEnd(cardano_cbor_validate_end_array(b.rd), h, url, b.val)

AnchorAfterUrl(u, h) ==
  IF u.err # CARDANO_SUCCESS THEN ChildFail(u.err, u.rd, h)
  ELSE AnchorAfterHash(cardano_cbor_reader_read_bytestring(u.rd), h, u.val)

AnchorAfterArray(a, h) ==
  IF a.err # CARDANO_SUCCESS THEN ChildFail(a.err, a.rd, h)
  ELSE AnchorAfterUrl(cardano_cbor_reader_read_textstring(a.rd), h)

cardano_anchor_from_cbor(rd, h) ==
  AnchorAfterArray(cardano_cbor_validate_array_of_n_elements(rd, ANCHOR_GROUP_SIZE), h)

\* a child decoder called at a site of a certificate decoder
ChildAtSite(site, rd, h, res) ==
  IF rd.fault = site THEN ChildFail(FaultErr(site), rd, h) ELSE res

CredentialEncoding(v) ==
  <<Tok("arr", CREDENTIAL_GROUP_SIZE), Tok("uint", v.f1), Tok("bytes", v.f2)>>

AnchorEncoding(v) ==
  <<Tok("arr", ANCHOR_GROUP_SIZE), Tok("text", v.f1), Tok("bytes", v.f2)>>

(***************************************************************************)
(* CBOR writer: the tokens written so far and the call site at which the   *)
(* writer fails for a reason of its own.                                   *)
(***************************************************************************)
cardano_cbor_writer_new(fault) == [toks |-> <<>>, fault |-> fault]

WriteAt(site, w, toks) ==
  IF w.fault = site
    THEN [err |-> FaultErr(site), w |-> w]
    ELSE [err |-> CARDANO_SUCCESS, w |-> [w EXCEPT !.toks = @ \o toks]]

cardano_cbor_writer_write_start_array(w, n) == WriteAt("w_start_array", w, <<Tok("arr", n)>>)
cardano_cbor_writer_write_uint(w, v) == WriteAt("w_type", w, <<Tok("uint", v)>>)
cardano_cbor_writer_write_null(w) == WriteAt("w_null", w, <<Tok("null", 0)>>)
cardano_credential_to_cbor(h, p, w) ==
  WriteAt("w_credential", w, CredentialEncoding(h[p]))
cardano_anchor_to_cbor(h, p, w) ==
  WriteAt("w_anchor", w, AnchorEncoding(h[p]))

Ev(site, err) == [step |-> site, err |-> err]

(***************************************************************************)
(* update_drep_cert.c.  A decoder or encoder is a chain of steps; each     *)
(* definition below takes the outcome of one call and carries on from the  *)
(* test of that outcome.  trace is the list of the calls made so far.      *)
(***************************************************************************)
\* the deallocator releasing the credential only
cardano_update_drep_cert_deallocate_CredentialOnly(h, p) ==
  [cardano_credential_unref(h, h[p].credential) EXCEPT ![p] = FreeObj]

cardano_update_drep_cert_deallocate(h, p) ==
  [cardano_anchor_unref(cardano_credential_unref(h, h[p].credential), h[p].anchor)
     EXCEPT ![p] = FreeObj]

\* result of a constructor: wrote says whether *out was assigned, val what
NewResult(err, h, wrote, val) == [err |-> err, heap |-> h, wrote |-> wrote, val |-> val]

\* the constructor taking over the caller's references
UpdateDRepInit_Steals(h, data, drep_credential, anchor) ==
  IF data = NULL THEN NewResult(CARDANO_ERROR_MEMORY_ALLOCATION_FAILED, h, FALSE, NULL)
  ELSE NewResult(CARDANO_SUCCESS,
                 [h EXCEPT ![data] = [kind |-> "update_drep_cert", ref_count |-> 1,
                                      f1 |-> 0, f2 |-> 0,
                                      credential |-> drep_credential,
                                      anchor |-> anchor, scripts |-> NULL, items |-> <<>>]],
                 TRUE, data)

\* lines 101-122: data is what _cardano_malloc returned
UpdateDRepInit(h, data, drep_credential, anchor) ==
  IF data = NULL THEN NewResult(CARDANO_ERROR_MEMORY_ALLOCATION_FAILED, h, FALSE, NULL)
  ELSE NewResult(CARDANO_SUCCESS,
                 [(IF anchor # NULL
                     THEN cardano_anchor_ref(cardano_credential_ref(h, drep_credential), anchor)
                     ELSE cardano_credential_ref(h, drep_credential))
                    EXCEPT ![data] = [kind |-> "update_drep_cert", ref_count |-> 1,
                                      f1 |-> 0, f2 |-> 0,
                                      credential |-> drep_credential,
                                      anchor |-> anchor, scripts |-> NULL, items |-> <<>>]],
                 TRUE, data)

\* the constructor taking the credential as it comes
cardano_update_drep_cert_new_Unchecked(h, drep_credential, anchor, outIsNull, mallocFails) ==
  IF outIsNull THEN NewResult(CARDANO_ERROR_POINTER_IS_NULL, h, FALSE, NULL)
  ELSE UpdateDRepInit(h, IF mallocFails THEN NULL ELSE cardano_malloc(h), drep_credential, anchor)

cardano_update_drep_cert_new(h, drep_credential, anchor, outIsNull, mallocFails) ==
  IF drep_credential = NULL THEN NewResult(CARDANO_ERROR_POINTER_IS_NULL, h, FALSE, NULL)
  ELSE IF outIsNull THEN NewResult(CARDANO_ERROR_POINTER_IS_NULL, h, FALSE, NULL)
  ELSE UpdateDRepInit(h, IF mallocFails THEN NULL ELSE cardano_malloc(h), drep_credential, anchor)

\* result of a decoder: the error code, the heap, whether *out was assigned
\* and with what, the calls made (site and outcome, in order), the reader
\* as left behind, and what the peek saw ("" if there was no peek)
DecodeResult(err, h, wrote, out, trace, rd, peeked) ==
  [err |-> err, heap |-> h, wrote |-> wrote, out |-> out, trace |-> trace,
   rd |-> rd, peeked |-> peeked]

\* line 210: e is the outcome of the end-of-array check, n of the constructor
UpdateDRepAfterEnd(e, n, h, trace, peeked) ==
  DecodeResult(e.err, h, n.wrote, n.val, Append(trace, Ev("end", e.err)), e.rd, peeked)

\* lines 205-210: h is the heap after the decoder dropped its references
UpdateDRepAfterUnrefs(n, h, rd, trace, peeked) ==
  IF n.err # CARDANO_SUCCESS
    THEN DecodeResult(n.err, h, n.wrote, n.val, trace, rd, peeked)
    ELSE UpdateDRepAfterEnd(AtSite("end", rd, cardano_cbor_validate_end_array(rd)),
                            n, h, trace, peeked)

\* a decoder that keeps the references it got from the children's decoders
UpdateDRepAfterNew_KeepsReferences(n, rd, credential, anchor, trace, peeked) ==
  UpdateDRepAfterUnrefs(n, n.heap, rd, Append(trace, Ev("new", n.err)), peeked)

\* lines 202-203: n is the outcome of the constructor
UpdateDRepAfterNew(n, rd, credential, anchor, trace, peeked) ==
  UpdateDRepAfterUnrefs(n,
                        cardano_anchor_unref(cardano_credential_unref(n.heap, credential), anchor),
                        rd, Append(trace, Ev("new", n.err)), peeked)

\* line 200
UpdateDRepConstruct(rd, h, credential, anchor, trace, peeked, mallocFails) ==
  UpdateDRepAfterNew(cardano_update_drep_cert_new(h, credential, anchor, FALSE, mallocFails),
                     rd, credential, anchor, trace, peeked)

\* lines 185-186: r is the outcome of read_null, which is dropped
\* (CARDANO_UNUSED)
UpdateDRepAfterReadNull(r, h, credential, trace, peeked, mallocFails) ==
  UpdateDRepConstruct(r.rd, h, credential, NULL, Append(trace, Ev("null", r.err)),
                      peeked, mallocFails)

\* lines 192-198: a is the outcome of the anchor decoder
UpdateDRepAfterAnchor(a, credential, trace, peeked, mallocFails) ==
  IF a.err # CARDANO_SUCCESS
    THEN DecodeResult(a.err, cardano_credential_unref(a.heap, credential), FALSE, NULL,
                      Append(trace, Ev("anchor", a.err)), a.rd, peeked)
    ELSE UpdateDRepConstruct(a.rd, a.heap, credential, a.val,
                             Append(trace, Ev("anchor", a.err)), peeked, mallocFails)

\* the anchor slot always handed to the anchor decoder, whatever was peeked
UpdateDRepAfterPeek_AlwaysAnchor(p, rd, h, credential, trace, mallocFails) ==
  IF p.err # CARDANO_SUCCESS
    THEN DecodeResult(p.err, cardano_credential_unref(h, credential), FALSE, NULL,
                      Append(trace, Ev("peek", p.err)), rd, "")
    ELSE UpdateDRepAfterAnchor(ChildAtSite("anchor", rd, h, cardano_anchor_from_cbor(rd, h)),
                               credential, Append(trace, Ev("peek", p.err)), p.state,
                               mallocFails)

\* a peeked null consumed by read_null and the anchor decoder called as well
UpdateDRepAfterPeek_NullThenAnchor(p, rd, h, credential, trace, mallocFails) ==
  IF p.err # CARDANO_SUCCESS
    THEN DecodeResult(p.err, cardano_credential_unref(h, credential), FALSE, NULL,
                      Append(trace, Ev("peek", p.err)), rd, "")
  ELSE IF p.state = "NULL"
    THEN UpdateDRepAfterAnchor(
           ChildAtSite("anchor", ReaderAdvance(rd), h,
                       cardano_anchor_from_cbor(ReaderAdvance(rd), h)),
           credential,
           Append(Append(trace, Ev("peek", p.err)), Ev("null", CARDANO_SUCCESS)),
           p.state, mallocFails)
  ELSE UpdateDRepAfterAnchor(ChildAtSite("anchor", rd, h, cardano_anchor_from_cbor(rd, h)),
                             credential, Append(trace, Ev("peek", p.err)), p.state,
                             mallocFails)

\* lines 176-190: p is the outcome of peek_state
UpdateDRepAfterPeek(p, rd, h, credential, trace, mallocFails) ==
  IF p.err # CARDANO_SUCCESS
    THEN DecodeResult(p.err, cardano_credential_unref(h, credential), FALSE, NULL,
                      Append(trace, Ev("peek", p.err)), rd, "")
  ELSE IF p.state = "NULL"
    THEN UpdateDRepAfterReadNull(AtSite("null", rd, cardano_cbor_reader_read_null(rd)),
                                 h, credential, Append(trace, Ev("peek", p.err)), p.state,
                                 mallocFails)
  ELSE UpdateDRepAfterAnchor(ChildAtSite("anchor", rd, h, cardano_anchor_from_cbor(rd, h)),
                             credential, Append(trace, Ev("peek", p.err)), p.state,
                             mallocFails)

\* lines 165-174: c is the outcome of the credential decoder
UpdateDRepAfterCredential(c, trace, mallocFails) ==
  IF c.err # CARDANO_SUCCESS
    THEN DecodeResult(c.err, c.heap, FALSE, NULL, Append(trace, Ev("cred", c.err)), c.rd, "")
    ELSE UpdateDRepAfterPeek(PeekAtSite(c.rd), c.rd, c.heap, c.val,
                             Append(trace, Ev("cred", c.err)), mallocFails)

\* lines 156-163: d is the outcome of the discriminant validator
UpdateDRepAfterDiscriminant(d, h, trace, mallocFails) ==
  IF d.err # CARDANO_SUCCESS
    THEN DecodeResult(d.err, h, FALSE, NULL, Append(trace, Ev("disc", d.err)), d.rd, "")
    ELSE UpdateDRepAfterCredential(
           ChildAtSite("cred", d.rd, h, cardano_credential_from_cbor(d.rd, h)),
           Append(trace, Ev("disc", d.err)), mallocFails)

\* the first element read as an unsigned integer and not compared
UpdateDRepAfterArity_AnyDiscriminant(a, h, mallocFails) ==
  IF a.err # CARDANO_SUCCESS
    THEN DecodeResult(a.err, h, FALSE, NULL, <<Ev("arity", a.err)>>, a.rd, "")
    ELSE UpdateDRepAfterDiscriminant(
           AtSite("disc", a.rd, cardano_cbor_reader_read_uint(a.rd)),
           h, <<Ev("arity", a.err)>>, mallocFails)

\* lines 142-154: a is the outcome of the arity validator
UpdateDRepAfterArity(a, h, mallocFails) ==
  IF a.err # CARDANO_SUCCESS
    THEN DecodeResult(a.err, h, FALSE, NULL, <<Ev("arity", a.err)>>, a.rd, "")
    ELSE UpdateDRepAfterDiscriminant(
           AtSite("disc", a.rd,
                  cardano_cbor_validate_enum_value(a.rd, CARDANO_CERT_TYPE_UPDATE_DREP)),
           h, <<Ev("arity", a.err)>>, mallocFails)

\* the decoder with the array opened and its length not compared
cardano_update_drep_cert_from_cbor_AnyLength(rd, h, readerIsNull, outIsNull, mallocFails) ==
  IF readerIsNull THEN DecodeResult(CARDANO_ERROR_POINTER_IS_NULL, h, FALSE, NULL, <<>>, rd, "")
  ELSE IF outIsNull THEN DecodeResult(CARDANO_ERROR_POINTER_IS_NULL, h, FALSE, NULL, <<>>, rd, "")
  ELSE UpdateDRepAfterArity(AtSite("arity", rd, cardano_cbor_reader_read_start_array(rd)),
                            h, mallocFails)

\* lines 125-140
cardano_update_drep_cert_from_cbor(rd, h, readerIsNull, outIsNull, mallocFails) ==
  IF readerIsNull THEN DecodeResult(CARDANO_ERROR_POINTER_IS_NULL, h, FALSE, NULL, <<>>, rd, "")
  ELSE IF outIsNull THEN DecodeResult(CARDANO_ERROR_POINTER_IS_NULL, h, FALSE, NULL, <<>>, rd, "")
  ELSE UpdateDRepAfterArity(
         AtSite("arity", rd,
                cardano_cbor_validate_array_of_n_elements(rd, UPDATE_DREP_EMBEDDED_GROUP_SIZE)),
         h, mallocFails)

\* result of an encoder: the error code, the writer, the calls made on it
EncodeResult(err, w, trace) == [err |-> err, w |-> w, trace |-> trace]

\* the outcome r of the last writer call, made at site, is what to_cbor returns
EncodeLast(r, site, trace) == EncodeResult(r.err, r.w, Append(trace, Ev(site, r.err)))

\* the anchor slot written as null whether or not there is an anchor
UpdateDRepWriteAnchorSlot_AlwaysNull(h, p, w, trace) ==
  EncodeLast(cardano_cbor_writer_write_null(w), "w_null", trace)

\* the anchor slot left out when there is no anchor
UpdateDRepWriteAnchorSlot_OmitAbsent(h, p, w, trace) ==
  IF h[p].anchor # NULL
    THEN EncodeLast(cardano_anchor_to_cbor(h, h[p].anchor, w), "w_anchor", trace)
    ELSE EncodeResult(CARDANO_SUCCESS, w, trace)

\* lines 249-268: the anchor slot
UpdateDRepWriteAnchorSlot(h, p, w, trace) ==
  IF h[p].anchor # NULL
    THEN EncodeLast(cardano_anchor_to_cbor(h, h[p].anchor, w), "w_anchor", trace)
    ELSE EncodeLast(cardano_cbor_writer_write_null(w), "w_null", trace)

\* lines 244-247: c is the outcome of the credential encoder
UpdateDRepAfterWriteCredential(c, h, p, trace) ==
  IF c.err # CARDANO_SUCCESS
    THEN EncodeResult(c.err, c.w, Append(trace, Ev("w_credential", c.err)))
    ELSE UpdateDRepWriteAnchorSlot(h, p, c.w, Append(trace, Ev("w_credential", c.err)))

\* lines 237-242: t is the outcome of write_uint
UpdateDRepAfterWriteType(t, h, p, trace) ==
  IF t.err # CARDANO_SUCCESS
    THEN EncodeResult(t.err, t.w, Append(trace, Ev("w_type", t.err)))
    ELSE UpdateDRepAfterWriteCredential(cardano_credential_to_cbor(h, h[p].credential, t.w),
                                        h, p, Append(trace, Ev("w_type", t.err)))

\* lines 230-235: a is the outcome of write_start_array
UpdateDRepAfterWriteStartArray(a, h, p) ==
  IF a.err # CARDANO_SUCCESS
    THEN EncodeResult(a.err, a.w, <<Ev("w_start_array", a.err)>>)
    ELSE UpdateDRepAfterWriteType(
           cardano_cbor_writer_write_uint(a.w, CARDANO_CERT_TYPE_UPDATE_DREP),
           h, p, <<Ev("w_start_array", a.err)>>)

\* lines 213-228
\* an encoder that starts the array before it looks at the certificate
cardano_update_drep_cert_to_cbor_WritesFirst(h, p, w, writerIsNull) ==
  IF writerIsNull THEN EncodeResult(CARDANO_ERROR_POINTER_IS_NULL, w, <<>>)
  ELSE IF p = NULL
    THEN EncodeResult(CARDANO_ERROR_POINTER_IS_NULL,
           cardano_cbor_writer_write_start_array(w, UPDATE_DREP_EMBEDDED_GROUP_SIZE).w,
           <<Ev("w_start_array", CARDANO_SUCCESS)>>)
  ELSE UpdateDRepAfterWriteStartArray(
         cardano_cbor_writer_write_start_array(w, UPDATE_DREP_EMBEDDED_GROUP_SIZE), h, p)

cardano_update_drep_cert_to_cbor(h, p, w, writerIsNull) ==
  IF p = NULL THEN EncodeResult(CARDANO_ERROR_POINTER_IS_NULL, w, <<>>)
  ELSE IF writerIsNull THEN EncodeResult(CARDANO_ERROR_POINTER_IS_NULL, w, <<>>)
  ELSE UpdateDRepAfterWriteStartArray(
         cardano_cbor_writer_write_start_array(w, UPDATE_DREP_EMBEDDED_GROUP_SIZE), h, p)

\* an unref that destroys the certificate whatever its count
cardano_update_drep_cert_unref_Eager(h, p) ==
  IF p = NULL THEN [heap |-> h, ptr |-> p]
  ELSE [heap |-> cardano_update_drep_cert_deallocate(h, p), ptr |-> NULL]

\* an unref that nulls the caller's pointer whatever the count
cardano_update_drep_cert_unref_AlwaysNulls(h, p) ==
  IF p = NULL THEN [heap |-> h, ptr |-> p]
  ELSE IF h[p].ref_count > 1
    THEN [heap |-> [h EXCEPT ![p].ref_count = @ - 1], ptr |-> NULL]
  ELSE [heap |-> cardano_update_drep_cert_deallocate(h, p), ptr |-> NULL]

\* cardano_object_unref on the base of a certificate, then lines 352-356
cardano_update_drep_cert_unref(h, p) ==
  IF p = NULL THEN [heap |-> h, ptr |-> p]
  ELSE IF h[p].ref_count > 1
    THEN [heap |-> [h EXCEPT ![p].ref_count = @ - 1], ptr |-> p]
  ELSE [heap |-> cardano_update_drep_cert_deallocate(h, p), ptr |-> NULL]

\* getters: a new reference to the child the certificate holds
\* a getter that returns the credential without taking a reference
cardano_update_drep_cert_get_credential_Borrowed(h, p) ==
  IF p = NULL THEN [heap |-> h, val |-> NULL]
  ELSE [heap |-> h, val |-> h[p].credential]

cardano_update_drep_cert_get_credential(h, p) ==
  IF p = NULL THEN [heap |-> h, val |-> NULL]
  ELSE [heap |-> cardano_credential_ref(h, h[p].credential), val |-> h[p].credential]

\* the getter handing out the certificate's own reference
cardano_update_drep_cert_get_anchor_Borrowed(h, p) ==
  IF p = NULL THEN [heap |-> h, val |-> NULL]
  ELSE [heap |-> h, val |-> h[p].anchor]

cardano_update_drep_cert_get_anchor(h, p) ==
  IF p = NULL THEN [heap |-> h, val |-> NULL]
  ELSE [heap |-> cardano_anchor_ref(h, h[p].anchor), val |-> h[p].anchor]

\* result of a setter: the error code, the heap, and the heaps in between
\* (after the ref and after the unref)
SetResult(err, h, mid) == [err |-> err, heap |-> h, mid |-> mid]

\* line 301: h1 is the heap after the ref, h2 after the unref
UpdateDRepSetCredentialAssign(h1, h2, p, credential) ==
  SetResult(CARDANO_SUCCESS, [h2 EXCEPT ![p].credential = credential], <<h1, h2>>)

\* line 300: h1 is the heap after the ref of the new credential
UpdateDRepSetCredentialAfterRef(h1, p, credential) ==
  UpdateDRepSetCredentialAssign(h1, cardano_credential_unref(h1, h1[p].credential),
                                p, credential)

\* the setter releasing the old credential before it takes the new one
cardano_update_drep_cert_set_credential_UnrefFirst(h, p, credential) ==
  IF p = NULL THEN SetResult(CARDANO_ERROR_POINTER_IS_NULL, h, <<>>)
  ELSE IF credential = NULL THEN SetResult(CARDANO_ERROR_POINTER_IS_NULL, h, <<>>)
  ELSE UpdateDRepSetCredentialAssign(
         cardano_credential_unref(h, h[p].credential),
         cardano_credential_ref(cardano_credential_unref(h, h[p].credential), credential),
         p, credential)

\* the setter storing whatever it is given
cardano_update_drep_cert_set_credential_AnyValue(h, p, credential) ==
  IF p = NULL THEN SetResult(CARDANO_ERROR_POINTER_IS_NULL, h, <<>>)
  ELSE UpdateDRepSetCredentialAfterRef(cardano_credential_ref(h, credential), p, credential)

\* lines 284-303
cardano_update_drep_cert_set_credential(h, p, credential) ==
  IF p = NULL THEN SetResult(CARDANO_ERROR_POINTER_IS_NULL, h, <<>>)
  ELSE IF credential = NULL THEN SetResult(CARDANO_ERROR_POINTER_IS_NULL, h, <<>>)
  ELSE UpdateDRepSetCredentialAfterRef(cardano_credential_ref(h, credential), p, credential)

\* line 336: h1 is the heap after the ref, h2 after the unref
UpdateDRepSetAnchorAssign(h1, h2, p, anchor) ==
  SetResult(CARDANO_SUCCESS, [h2 EXCEPT ![p].anchor = anchor], <<h1, h2>>)

\* the setter forgetting to release the anchor it replaces
UpdateDRepSetAnchorAfterRef_KeepsOld(h1, p, anchor) ==
  UpdateDRepSetAnchorAssign(h1, h1, p, anchor)

\* line 335: h1 is the heap after the ref of the new anchor
UpdateDRepSetAnchorAfterRef(h1, p, anchor) ==
  UpdateDRepSetAnchorAssign(h1, cardano_anchor_unref(h1, h1[p].anchor), p, anchor)

\* the setter accepting a null anchor, which clears the field
cardano_update_drep_cert_set_anchor_AnyValue(h, p, anchor) ==
  IF p = NULL THEN SetResult(CARDANO_ERROR_POINTER_IS_NULL, h, <<>>)
  ELSE UpdateDRepSetAnchorAfterRef(cardano_anchor_ref(h, anchor), p, anchor)

\* lines 319-338
cardano_update_drep_cert_set_anchor(h, p, anchor) ==
  IF p = NULL THEN SetResult(CARDANO_ERROR_POINTER_IS_NULL, h, <<>>)
  ELSE IF anchor = NULL THEN SetResult(CARDANO_ERROR_POINTER_IS_NULL, h, <<>>)
  ELSE UpdateDRepSetAnchorAfterRef(cardano_anchor_ref(h, anchor), p, anchor)

\* a ref that leaves the count alone
cardano_update_drep_cert_ref_NoCount(h, p) == h

\* lines 359-368: cardano_object_ref on the base of the certificate
cardano_update_drep_cert_ref(h, p) == cardano_object_ref(h, p)

\* lines 370-379
cardano_update_drep_cert_refcount(h, p) == IF p = NULL THEN 0 ELSE h[p].ref_count

(***************************************************************************)
(* stake_registration_cert.c                                               *)
(***************************************************************************)
cardano_stake_registration_cert_deallocate(h, p) ==
  [cardano_credential_unref(h, h[p].credential) EXCEPT ![p] = FreeObj]

\* lines 491-505: data is what _cardano_malloc returned
StakeRegistrationInit(h, data, credential) ==
  IF data = NULL THEN NewResult(CARDANO_ERROR_MEMORY_ALLOCATION_FAILED, h, FALSE, NULL)
  ELSE NewResult(CARDANO_SUCCESS,
                 [cardano_credential_ref(h, credential)
                    EXCEPT ![data] = [kind |-> "stake_registration_cert", ref_count |-> 1,
                                      f1 |-> 0, f2 |-> 0,
                                      credential |-> credential,
                                      anchor |-> NULL, scripts |-> NULL, items |-> <<>>]],
                 TRUE, data)

cardano_stake_registration_cert_new(h, credential, outIsNull, mallocFails) ==
  IF credential = NULL THEN NewResult(CARDANO_ERROR_POINTER_IS_NULL, h, FALSE, NULL)
  ELSE IF outIsNull THEN NewResult(CARDANO_ERROR_POINTER_IS_NULL, h, FALSE, NULL)
  ELSE StakeRegistrationInit(h, IF mallocFails THEN NULL ELSE cardano_malloc(h), credential)

\* line 562: e is the outcome of the end-of-array check, n of the constructor
StakeRegistrationAfterEnd(e, n, h, trace) ==
  DecodeResult(e.err, h, n.wrote, n.val, Append(trace, Ev("end", e.err)), e.rd, "")

\* lines 557-562: h is the heap after the decoder dropped its reference
StakeRegistrationAfterUnref(n, h, rd, trace) ==
  IF n.err # CARDANO_SUCCESS
    THEN DecodeResult(n.err, h, n.wrote, n.val, trace, rd, "")
    ELSE StakeRegistrationAfterEnd(AtSite("end", rd, cardano_cbor_validate_end_array(rd)),
                                   n, h, trace)

\* line 555: n is the outcome of the constructor
StakeRegistrationAfterNew(n, rd, credential, trace) ==
  StakeRegistrationAfterUnref(n, cardano_credential_unref(n.heap, credential), rd,
                              Append(trace, Ev("new", n.err)))

\* lines 548-553: c is the outcome of the credential decoder
StakeRegistrationAfterCredential(c, trace, mallocFails) ==
  IF c.err # CARDANO_SUCCESS
    THEN DecodeResult(c.err, c.heap, FALSE, NULL, Append(trace, Ev("cred", c.err)), c.rd, "")
    ELSE StakeRegistrationAfterNew(
           cardano_stake_registration_cert_new(c.heap, c.val, FALSE, mallocFails),
           c.rd, c.val, Append(trace, Ev("cred", c.err)))

\* lines 539-546: d is the outcome of the discriminant validator
StakeRegistrationAfterDiscriminant(d, h, trace, mallocFails) ==
  IF d.err # CARDANO_SUCCESS
    THEN DecodeResult(d.err, h, FALSE, NULL, Append(trace, Ev("disc", d.err)), d.rd, "")
    ELSE StakeRegistrationAfterCredential(
           ChildAtSite("cred", d.rd, h, cardano_credential_from_cbor(d.rd, h)),
           Append(trace, Ev("disc", d.err)), mallocFails)

\* lines 525-537: a is the outcome of the arity validator
StakeRegistrationAfterArity(a, h, mallocFails) ==
  IF a.err # CARDANO_SUCCESS
    THEN DecodeResult(a.err, h, FALSE, NULL, <<Ev("arity", a.err)>>, a.rd, "")
    ELSE StakeRegistrationAfterDiscriminant(
           AtSite("disc", a.rd,
                  cardano_cbor_validate_enum_value(a.rd, CARDANO_CERT_TYPE_STAKE_REGISTRATION)),
           h, <<Ev("arity", a.err)>>, mallocFails)

\* the decoder with the array opened and its length not compared
cardano_stake_registration_cert_from_cbor_AnyLength(rd, h, readerIsNull, outIsNull, mallocFails) ==
  IF readerIsNull THEN DecodeResult(CARDANO_ERROR_POINTER_IS_NULL, h, FALSE, NULL, <<>>, rd, "")
  ELSE IF outIsNull THEN DecodeResult(CARDANO_ERROR_POINTER_IS_NULL, h, FALSE, NULL, <<>>, rd, "")
  ELSE StakeRegistrationAfterArity(
         AtSite("arity", rd, cardano_cbor_reader_read_start_array(rd)), h, mallocFails)

\* lines 508-523
cardano_stake_registration_cert_from_cbor(rd, h, readerIsNull, outIsNull, mallocFails) ==
  IF readerIsNull THEN DecodeResult(CARDANO_ERROR_POINTER_IS_NULL, h, FALSE, NULL, <<>>, rd, "")
  ELSE IF outIsNull THEN DecodeResult(CARDANO_ERROR_POINTER_IS_NULL, h, FALSE, NULL, <<>>, rd, "")
  ELSE StakeRegistrationAfterArity(
         AtSite("arity", rd,
                cardano_cbor_validate_array_of_n_elements(rd, STAKE_REGISTRATION_EMBEDDED_GROUP_SIZE)),
         h, mallocFails)

\* lines 589-601: t is the outcome of write_uint
StakeRegistrationAfterWriteType(t, h, p, trace) ==
  IF t.err # CARDANO_SUCCESS
    THEN EncodeResult(t.err, t.w, Append(trace, Ev("w_type", t.err)))
    ELSE EncodeLast(cardano_credential_to_cbor(h, h[p].credential, t.w), "w_credential",
                    Append(trace, Ev("w_type", t.err)))

\* lines 582-587: a is the outcome of write_start_array
StakeRegistrationAfterWriteStartArray(a, h, p) ==
  IF a.err # CARDANO_SUCCESS
    THEN EncodeResult(a.err, a.w, <<Ev("w_start_array", a.err)>>)
    ELSE StakeRegistrationAfterWriteType(
           cardano_cbor_writer_write_uint(a.w, CARDANO_CERT_TYPE_STAKE_REGISTRATION),
           h, p, <<Ev("w_start_array", a.err)>>)

\* lines 565-580
cardano_stake_registration_cert_to_cbor(h, p, w, writerIsNull) ==
  IF p = NULL THEN EncodeResult(CARDANO_ERROR_POINTER_IS_NULL, w, <<>>)
  ELSE IF writerIsNull THEN EncodeResult(CARDANO_ERROR_POINTER_IS_NULL, w, <<>>)
  ELSE StakeRegistrationAfterWriteStartArray(
         cardano_cbor_writer_write_start_array(w, STAKE_REGISTRATION_EMBEDDED_GROUP_SIZE), h, p)

cardano_stake_registration_cert_unref(h, p) ==
  IF p = NULL THEN [heap |-> h, ptr |-> p]
  ELSE IF h[p].ref_count > 1
    THEN [heap |-> [h EXCEPT ![p].ref_count = @ - 1], ptr |-> p]
  ELSE [heap |-> cardano_stake_registration_cert_deallocate(h, p), ptr |-> NULL]

cardano_stake_registration_cert_get_credential(h, p) ==
  IF p = NULL THEN [heap |-> h, val |-> NULL]
  ELSE [heap |-> cardano_credential_ref(h, h[p].credential), val |-> h[p].credential]

\* line 632: h1 is the heap after the ref, h2 after the unref
StakeRegistrationSetCredentialAssign(h1, h2, p, credential) ==
  SetResult(CARDANO_SUCCESS, [h2 EXCEPT ![p].credential = credential], <<h1, h2>>)

\* line 631: h1 is the heap after the ref of the new credential
StakeRegistrationSetCredentialAfterRef(h1, p, credential) ==
  StakeRegistrationSetCredentialAssign(h1, cardano_credential_unref(h1, h1[p].credential),
                                       p, credential)

\* lines 617-634
cardano_stake_registration_cert_set_credential(h, p, credential) ==
  IF p = NULL THEN SetResult(CARDANO_ERROR_POINTER_IS_NULL, h, <<>>)
  ELSE IF credential = NULL THEN SetResult(CARDANO_ERROR_POINTER_IS_NULL, h, <<>>)
  ELSE StakeRegistrationSetCredentialAfterRef(cardano_credential_ref(h, credential),
                                              p, credential)

\* lines 655-664: cardano_object_ref on the base of the certificate
cardano_stake_registration_cert_ref(h, p) == cardano_object_ref(h, p)

\* lines 666-675
cardano_stake_registration_cert_refcount(h, p) == IF p = NULL THEN 0 ELSE h[p].ref_count

(***************************************************************************)
(* Native scripts.  script_n_of_k.h declares the n-of-k script; the other  *)
(* variants, the script list and the bodies of the functions are not part  *)
(* of these files and are modelled from the design: a native script is a   *)
(* tagged union of PubKey, All, Any, AtLeast (n-of-k), InvalidAfter and    *)
(* InvalidBefore; the variants with sub-scripts hold a reference to a      *)
(* script list, which holds a reference to each of its elements in order.  *)
(***************************************************************************)
ScriptLeafKinds == {"script_pubkey", "script_invalid_after", "script_invalid_before"}
ScriptListKinds == {"script_all", "script_any", "script_n_of_k"}

\* the discriminant of a variant
ScriptTag(kind) ==
  CASE kind = "script_pubkey"         -> 0
    [] kind = "script_all"            -> 1
    [] kind = "script_any"            -> 2
    [] kind = "script_n_of_k"         -> 3
    [] kind = "script_invalid_after"  -> 4
    [] kind = "script_invalid_before" -> 5

\* the fixed length of the array that encodes a variant
ScriptArity(kind) == IF kind = "script_n_of_k" THEN 3 ELSE 2

\* releasing a reference to a script or to a script list; the last release
\* releases the list the script holds and the elements the list holds
RECURSIVE cardano_native_script_unref(_, _)
RECURSIVE NativeScriptListRelease(_, _)
NativeScriptListRelease(h, items) ==
  IF items = <<>> THEN h
  ELSE NativeScriptListRelease(cardano_native_script_unref(h, Head(items)), Tail(items))

cardano_native_script_unref(h, p) ==
  IF p = NULL THEN h
  ELSE IF h[p].ref_count > 1 THEN [h EXCEPT ![p].ref_count = @ - 1]
  ELSE [NativeScriptListRelease(cardano_native_script_unref(h, h[p].scripts), h[p].items)
          EXCEPT ![p] = FreeObj]

cardano_native_script_list_new(h) ==
  LeafInit(h, cardano_malloc(h), "native_script_list", [f1 |-> 0, f2 |-> 0])

cardano_native_script_list_ref(h, p) == cardano_object_ref(h, p)
cardano_native_script_list_unref(h, p) == cardano_native_script_unref(h, p)

\* the list takes a reference of its own to the element it is given
\* a list that takes a new element at its front
cardano_native_script_list_add_Prepends(h, list, element) ==
  [cardano_object_ref(h, element) EXCEPT ![list].items = <<element>> \o @]

cardano_native_script_list_add(h, list, element) ==
  [cardano_object_ref(h, element) EXCEPT ![list].items = Append(@, element)]

cardano_native_script_list_get_length(h, list) ==
  IF list = NULL THEN 0 ELSE Len(h[list].items)

\* the leaf variants: a key hash, or a slot
cardano_script_pubkey_new(h, hash) ==
  LeafInit(h, cardano_malloc(h), "script_pubkey", [f1 |-> hash, f2 |-> 0])
cardano_script_invalid_after_new(h, slot) ==
  LeafInit(h, cardano_malloc(h), "script_invalid_after", [f1 |-> slot, f2 |-> 0])
cardano_script_invalid_before_new(h, slot) ==
  LeafInit(h, cardano_malloc(h), "script_invalid_before", [f1 |-> slot, f2 |-> 0])

\* data is what the allocator returned
ScriptNOfKInit(h, data, native_scripts, required) ==
  IF data = NULL THEN NewResult(CARDANO_ERROR_MEMORY_ALLOCATION_FAILED, h, FALSE, NULL)
  ELSE NewResult(CARDANO_SUCCESS,
                 [cardano_native_script_list_ref(h, native_scripts)
                    EXCEPT ![data] = [kind |-> "script_n_of_k", ref_count |-> 1,
                                      f1 |-> required, f2 |-> 0,
                                      credential |-> NULL, anchor |-> NULL,
                                      scripts |-> native_scripts, items |-> <<>>]],
                 TRUE, data)

cardano_script_n_of_k_new(h, native_scripts, required, outIsNull, mallocFails) ==
  IF native_scripts = NULL THEN NewResult(CARDANO_ERROR_POINTER_IS_NULL, h, FALSE, NULL)
  ELSE IF outIsNull THEN NewResult(CARDANO_ERROR_POINTER_IS_NULL, h, FALSE, NULL)
  ELSE ScriptNOfKInit(h, IF mallocFails THEN NULL ELSE cardano_malloc(h),
                      native_scripts, required)

\* cardano_script_all_new / cardano_script_any_new
ScriptAllAnyInit(n, kind) ==
  IF n.err # CARDANO_SUCCESS THEN n
  ELSE [n EXCEPT !.heap = [@ EXCEPT ![n.val].kind = kind]]

cardano_script_all_new(h, native_scripts) ==
  ScriptAllAnyInit(cardano_script_n_of_k_new(h, native_scripts, 0, FALSE, FALSE), "script_all")
cardano_script_any_new(h, native_scripts) ==
  ScriptAllAnyInit(cardano_script_n_of_k_new(h, native_scripts, 0, FALSE, FALSE), "script_any")

\* the list is returned through the output pointer with a reference of its
\* own
cardano_script_n_of_k_get_scripts(h, p, listIsNull) ==
  IF p = NULL THEN [err |-> CARDANO_ERROR_POINTER_IS_NULL, heap |-> h, val |-> NULL]
  ELSE IF listIsNull THEN [err |-> CARDANO_ERROR_POINTER_IS_NULL, heap |-> h, val |-> NULL]
  ELSE [err  |-> CARDANO_SUCCESS,
        heap |-> cardano_native_script_list_ref(h, h[p].scripts),
        val  |-> h[p].scripts]

cardano_script_n_of_k_get_length(h, p) ==
  IF p = NULL THEN 0 ELSE cardano_native_script_list_get_length(h, h[p].scripts)

cardano_script_n_of_k_get_required(h, p) == IF p = NULL THEN 0 ELSE h[p].f1

\* a required count taken modulo the length of the list
cardano_script_n_of_k_set_required_Clamped(h, p, required) ==
  IF p = NULL THEN [err |-> CARDANO_ERROR_POINTER_IS_NULL, heap |-> h]
  ELSE [err  |-> CARDANO_SUCCESS,
        heap |-> [h EXCEPT ![p].f1 =
                    IF required > Len(h[h[p].scripts].items)
                      THEN Len(h[h[p].scripts].items) ELSE required]]

cardano_script_n_of_k_set_required(h, p, required) ==
  IF p = NULL THEN [err |-> CARDANO_ERROR_POINTER_IS_NULL, heap |-> h]
  ELSE [err |-> CARDANO_SUCCESS, heap |-> [h EXCEPT ![p].f1 = required]]

cardano_script_n_of_k_deallocate(h, p) ==
  [cardano_native_script_list_unref(h, h[p].scripts) EXCEPT ![p] = FreeObj]

\* cardano_object_unref on the base of the script; the caller's pointer is
\* nulled when the object is gone, as in cardano_update_drep_cert_unref
cardano_script_n_of_k_unref(h, p) ==
  IF p = NULL THEN [heap |-> h, ptr |-> p]
  ELSE IF h[p].ref_count > 1
    THEN [heap |-> [h EXCEPT ![p].ref_count = @ - 1], ptr |-> p]
  ELSE [heap |-> cardano_script_n_of_k_deallocate(h, p), ptr |-> NULL]

cardano_script_n_of_k_ref(h, p) == cardano_object_ref(h, p)

cardano_script_n_of_k_refcount(h, p) == IF p = NULL THEN 0 ELSE h[p].ref_count

\* equality of native scripts: same variant, same payload, and for the
\* variants with sub-scripts lists of the same length whose elements are
\* equal position by position
RECURSIVE cardano_native_script_equals(_, _, _)
cardano_native_script_list_equals(h, lhs, rhs) ==
  /\ Len(h[lhs].items) = Len(h[rhs].items)
  /\ \A i \in 1..Len(h[lhs].items) :
       cardano_native_script_equals(h, h[lhs].items[i], h[rhs].items[i])

cardano_native_script_equals(h, lhs, rhs) ==
  IF lhs = rhs THEN TRUE
  ELSE IF lhs = NULL \/ rhs = NULL THEN FALSE
  ELSE IF h[lhs].kind # h[rhs].kind THEN FALSE
  ELSE IF h[lhs].f1 # h[rhs].f1 THEN FALSE
  ELSE IF h[lhs].kind \in ScriptLeafKinds THEN TRUE
  ELSE cardano_native_script_list_equals(h, h[lhs].scripts, h[rhs].scripts)

\* an equality that compares the lists only
cardano_script_n_of_k_equals_ListsOnly(h, lhs, rhs) ==
  IF lhs = rhs THEN TRUE
  ELSE IF lhs = NULL \/ rhs = NULL THEN FALSE
  ELSE cardano_native_script_list_equals(h, h[lhs].scripts, h[rhs].scripts)

cardano_script_n_of_k_equals(h, lhs, rhs) ==
  IF lhs = rhs THEN TRUE
  ELSE IF lhs = NULL \/ rhs = NULL THEN FALSE
  ELSE IF h[lhs].f1 # h[rhs].f1 THEN FALSE
  ELSE cardano_native_script_list_equals(h, h[lhs].scripts, h[rhs].scripts)

(***************************************************************************)
(* The native-script codec.  A decoder is a chain of steps, each given the *)
(* outcome of the call before it.  d is the nesting level of the script    *)
(* being decoded and trace lists the element decodes completed so far,     *)
(* each with its outcome and the level of the list it belongs to.          *)
(***************************************************************************)
ScriptFail(err, rd, h, trace) ==
  [err |-> err, rd |-> rd, heap |-> h, val |-> NULL, trace |-> trace]

ChildEv(err, d) == [step |-> "child", err |-> err, level |-> d]

\* a leaf variant: [tag, value]; n is the outcome of the constructor
ScriptLeafAfterNew(n, rd, trace) ==
  [err |-> n.err, rd |-> rd, heap |-> n.heap, val |-> n.val, trace |-> trace]

ScriptLeafAfterEnd(e, h, kind, v, trace) ==
  IF e.err # CARDANO_SUCCESS THEN ScriptFail(e.err, e.rd, h, trace)
  ELSE ScriptLeafAfterNew(
         CASE kind = "script_pubkey"        -> cardano_script_pubkey_new(h, v)
           [] kind = "script_invalid_after" -> cardano_script_invalid_after_new(h, v)
           [] OTHER                         -> cardano_script_invalid_before_new(h, v),
         e.rd, trace)

ScriptLeafAfterValue(v, h, kind, trace) ==
  IF v.err # CARDANO_SUCCESS THEN ScriptFail(v.err, v.rd, h, trace)
  ELSE ScriptLeafAfterEnd(cardano_cbor_validate_end_array(v.rd), h, kind, v.val, trace)

ScriptLeafAfterDiscriminant(t, h, kind, trace) ==
  IF t.err # CARDANO_SUCCESS THEN ScriptFail(t.err, t.rd, h, trace)
  ELSE ScriptLeafAfterValue(IF kind = "script_pubkey"
                              THEN cardano_cbor_reader_read_bytestring(t.rd)
                              ELSE cardano_cbor_reader_read_uint(t.rd),
                            h, kind, trace)

ScriptLeafAfterArity(a, h, kind, trace) ==
  IF a.err # CARDANO_SUCCESS THEN ScriptFail(a.err, a.rd, h, trace)
  ELSE ScriptLeafAfterDiscriminant(cardano_cbor_validate_enum_value(a.rd, ScriptTag(kind)),
                                   h, kind, trace)

ScriptLeafFromCbor(rd, h, kind, trace) ==
  ScriptLeafAfterArity(cardano_cbor_validate_array_of_n_elements(rd, ScriptArity(kind)),
                       h, kind, trace)

RECURSIVE cardano_native_script_from_cbor(_, _, _, _)
RECURSIVE NativeScriptListItems(_, _, _, _)

\* the script list: an array of any length, each element a native script
NativeScriptListAfterEnd(e, h, list, trace) ==
  IF e.err # CARDANO_SUCCESS
    THEN ScriptFail(e.err, e.rd, cardano_native_script_list_unref(h, list), trace)
    ELSE [err |-> CARDANO_SUCCESS, rd |-> e.rd, heap |-> h, val |-> list, trace |-> trace]

\* an element decoder that leaves the list and its elements behind when an
\* element fails
NativeScriptListAfterItem_Leaky(c, list, n, d) ==
  IF c.err # CARDANO_SUCCESS
    THEN ScriptFail(c.err, c.rd, c.heap, Append(c.trace, ChildEv(c.err, d)))
    ELSE NativeScriptListItems(
           [c EXCEPT !.heap = cardano_native_script_unref(
                                cardano_native_script_list_add(c.heap, list, c.val), c.val),
                     !.trace = Append(@, ChildEv(CARDANO_SUCCESS, d))],
           list, n, d)

\* c is the outcome of decoding one element; n elements remain after it
NativeScriptListAfterItem(c, list, n, d) ==
  IF c.err # CARDANO_SUCCESS
    THEN ScriptFail(c.err, c.rd, cardano_native_script_list_unref(c.heap, list),
                    Append(c.trace, ChildEv(c.err, d)))
    ELSE NativeScriptListItems(
           [c EXCEPT !.heap = cardano_native_script_unref(
                                cardano_native_script_list_add(c.heap, list, c.val), c.val),
                     !.trace = Append(@, ChildEv(CARDANO_SUCCESS, d))],
           list, n, d)

\* r is the reader, heap and trace so far; n elements remain
NativeScriptListItems(r, list, n, d) ==
  IF n = 0
    THEN NativeScriptListAfterEnd(cardano_cbor_reader_read_end_array(r.rd), r.heap, list, r.trace)
    ELSE NativeScriptListAfterItem(
           cardano_native_script_from_cbor(r.rd, r.heap, d + 1, r.trace), list, n - 1, d)

\* l is the outcome of creating the list, a of reading the array header
NativeScriptListAfterNew(l, a, d, trace) ==
  IF l.err # CARDANO_SUCCESS THEN ScriptFail(l.err, a.rd, l.heap, trace)
  ELSE NativeScriptListItems([rd |-> a.rd, heap |-> l.heap, trace |-> trace],
                             l.val, a.val, d)

NativeScriptListAfterStart(a, h, d, trace) ==
  IF a.err # CARDANO_SUCCESS THEN ScriptFail(a.err, a.rd, h, trace)
  ELSE NativeScriptListAfterNew(cardano_native_script_list_new(h), a, d, trace)

cardano_native_script_list_from_cbor(rd, h, d, trace) ==
  NativeScriptListAfterStart(cardano_cbor_reader_read_start_array(rd), h, d, trace)

\* the variants with sub-scripts: [tag, list] and [tag, required, list].
\* The node is constructed once the list is decoded and the array is
\* exhausted; the decoder then releases its own reference to the list.
ScriptListBearingAfterNew(n, rd, list, trace) ==
  [err |-> n.err, rd |-> rd, heap |-> cardano_native_script_list_unref(n.heap, list),
   val |-> n.val, trace |-> trace]

ScriptListBearingAfterEnd(e, h, kind, required, list, trace) ==
  IF e.err # CARDANO_SUCCESS
    THEN ScriptFail(e.err, e.rd, cardano_native_script_list_unref(h, list), trace)
    ELSE ScriptListBearingAfterNew(
           CASE kind = "script_n_of_k" ->
                  cardano_script_n_of_k_new(h, list, required, FALSE, FALSE)
             [] kind = "script_all"    -> cardano_script_all_new(h, list)
             [] OTHER                  -> cardano_script_any_new(h, list),
           e.rd, list, trace)

\* l is the outcome of the list decoder
ScriptListBearingAfterList(l, kind, required) ==
  IF l.err # CARDANO_SUCCESS THEN l
  ELSE ScriptListBearingAfterEnd(cardano_cbor_validate_end_array(l.rd), l.heap, kind,
                                 required, l.val, l.trace)

\* q is the outcome of reading the required count
ScriptListBearingAfterRequired(q, h, kind, d, trace) ==
  IF q.err # CARDANO_SUCCESS THEN ScriptFail(q.err, q.rd, h, trace)
  ELSE ScriptListBearingAfterList(cardano_native_script_list_from_cbor(q.rd, h, d, trace),
                                  kind, q.val)

ScriptListBearingAfterDiscriminant(t, h, kind, d, trace) ==
  IF t.err # CARDANO_SUCCESS THEN ScriptFail(t.err, t.rd, h, trace)
  ELSE IF kind = "script_n_of_k"
    THEN ScriptListBearingAfterRequired(cardano_cbor_reader_read_uint(t.rd), h, kind, d, trace)
    ELSE ScriptListBearingAfterList(cardano_native_script_list_from_cbor(t.rd, h, d, trace),
                                    kind, 0)

ScriptListBearingAfterArity(a, h, kind, d, trace) ==
  IF a.err # CARDANO_SUCCESS THEN ScriptFail(a.err, a.rd, h, trace)
  ELSE ScriptListBearingAfterDiscriminant(
         cardano_cbor_validate_enum_value(a.rd, ScriptTag(kind)), h, kind, d, trace)

ScriptListBearingFromCbor(rd, h, kind, d, trace) ==
  ScriptListBearingAfterArity(
    cardano_cbor_validate_array_of_n_elements(rd, ScriptArity(kind)), h, kind, d, trace)

cardano_script_n_of_k_from_cbor(rd, h, readerIsNull, outIsNull) ==
  IF readerIsNull THEN ScriptFail(CARDANO_ERROR_POINTER_IS_NULL, rd, h, <<>>)
  ELSE IF outIsNull THEN ScriptFail(CARDANO_ERROR_POINTER_IS_NULL, rd, h, <<>>)
  ELSE ScriptListBearingFromCbor(rd, h, "script_n_of_k", 0, <<>>)

\* the entry point for any variant: the discriminant is looked at on a copy
\* of the reader and selects the variant's decoder, which reads the array
\* from its start
NativeScriptAfterPeekType(t, rd, h, d, trace) ==
  IF t.err # CARDANO_SUCCESS THEN ScriptFail(t.err, rd, h, trace)
  ELSE IF \E k \in ScriptLeafKinds : ScriptTag(k) = t.val
    THEN ScriptLeafFromCbor(rd, h, CHOOSE k \in ScriptLeafKinds : ScriptTag(k) = t.val, trace)
  ELSE IF \E k \in ScriptListKinds : ScriptTag(k) = t.val
    THEN ScriptListBearingFromCbor(rd, h, CHOOSE k \in ScriptListKinds : ScriptTag(k) = t.val,
                                   d, trace)
  ELSE ScriptFail(SCHEMA_DISCRIMINANT, rd, h, trace)

NativeScriptAfterPeekArray(a, rd, h, d, trace) ==
  IF a.err # CARDANO_SUCCESS THEN ScriptFail(a.err, rd, h, trace)
  ELSE NativeScriptAfterPeekType(cardano_cbor_reader_read_uint(a.rd), rd, h, d, trace)

cardano_native_script_from_cbor(rd, h, d, trace) ==
  NativeScriptAfterPeekArray(cardano_cbor_reader_read_start_array(rd), rd, h, d, trace)

(***************************************************************************)
(* Encoding.  The writer of a script encoder has a capacity, the number of *)
(* items it accepts before its calls fail; r is the outcome so far.        *)
(***************************************************************************)
ScriptWriterNew(cap) == [toks |-> <<>>, fault |-> "none", cap |-> cap]

ScriptWrite(r, toks) ==
  IF r.err # CARDANO_SUCCESS THEN r
  ELSE IF Len(r.w.toks) + Len(toks) > r.w.cap
    THEN [err |-> "FAULT_AT_WRITE", w |-> r.w]
  ELSE [err |-> CARDANO_SUCCESS, w |-> [r.w EXCEPT !.toks = @ \o toks]]

RECURSIVE cardano_native_script_to_cbor(_, _, _)
RECURSIVE NativeScriptListItemsToCbor(_, _, _)

\* the elements written last to first
NativeScriptListItemsToCbor_Reversed(r, h, items) ==
  IF items = <<>> THEN r
  ELSE cardano_native_script_to_cbor(
         NativeScriptListItemsToCbor(r, h, Tail(items)), h, Head(items))

NativeScriptListItemsToCbor(r, h, items) ==
  IF items = <<>> THEN r
  ELSE NativeScriptListItemsToCbor(cardano_native_script_to_cbor(r, h, Head(items)),
                                   h, Tail(items))

cardano_native_script_list_to_cbor(r, h, list) ==
  NativeScriptListItemsToCbor(ScriptWrite(r, <<Tok("arr", Len(h[list].items))>>),
                              h, h[list].items)

\* the array header and the discriminant, then the fields in order
ScriptWriteHeader(r, kind) ==
  ScriptWrite(ScriptWrite(r, <<Tok("arr", ScriptArity(kind))>>),
              <<Tok("uint", ScriptTag(kind))>>)

cardano_native_script_to_cbor(r, h, p) ==
  IF r.err # CARDANO_SUCCESS THEN r
  ELSE CASE h[p].kind = "script_pubkey" ->
              ScriptWrite(ScriptWriteHeader(r, h[p].kind), <<Tok("bytes", h[p].f1)>>)
         [] h[p].kind \in {"script_invalid_after", "script_invalid_before"} ->
              ScriptWrite(ScriptWriteHeader(r, h[p].kind), <<Tok("uint", h[p].f1)>>)
         [] h[p].kind = "script_n_of_k" ->
              cardano_native_script_list_to_cbor(
                ScriptWrite(ScriptWriteHeader(r, h[p].kind), <<Tok("uint", h[p].f1)>>),
                h, h[p].scripts)
         [] OTHER ->
              cardano_native_script_list_to_cbor(ScriptWriteHeader(r, h[p].kind),
                                                 h, h[p].scripts)

cardano_script_n_of_k_to_cbor(h, p, w, writerIsNull) ==
  IF p = NULL THEN [err |-> CARDANO_ERROR_POINTER_IS_NULL, w |-> w]
  ELSE IF writerIsNull THEN [err |-> CARDANO_ERROR_POINTER_IS_NULL, w |-> w]
  ELSE cardano_native_script_to_cbor([err |-> CARDANO_SUCCESS, w |-> w], h, p)

(***************************************************************************)
(* State.                                                                  *)
(*   heap    the objects                                                   *)
(*   certp   the caller's certificate pointers: x, a certificate it built, *)
(*           and y, the output pointer it passes to from_cbor              *)
(*   childp  the caller's credential pointer c and anchor pointer a        *)
(*   scriptp the caller's script pointers s and t and its script-list      *)
(*           pointer l                                                     *)
(*   reader  the input the caller is about to decode (SpecDecode)          *)
(*   writer  the writer of the latest to_cbor call, and the value of the   *)
(*           certificate that call encoded                                 *)
(*   last    the latest call: what was called, on what, and its outcome    *)
(***************************************************************************)
CertPtrs == {"x", "y"}
ChildPtrs == {"c", "a"}
ScriptPtrs == {"s", "l", "t"}
CertKinds == {"update_drep_cert", "stake_registration_cert"}
UpdateDRepDecodeFaults == {"none", "arity", "disc", "cred", "peek", "null", "anchor", "new", "end"}
StakeRegistrationDecodeFaults == {"none", "arity", "disc", "cred", "new", "end"}
UpdateDRepEncodeFaults == {"none", "w_start_array", "w_type", "w_credential", "w_anchor", "w_null"}
StakeRegistrationEncodeFaults == {"none", "w_start_array", "w_type", "w_credential"}

NoValue == [kind |-> "free", c1 |-> 0, c2 |-> 0, has |-> FALSE, a1 |-> 0, a2 |-> 0]

\* the value of a live certificate: its type, credential and anchor
CertValue(h, p) ==
  LET c == h[p].credential
      a == h[p].anchor
  IN  [kind |-> h[p].kind,
       c1 |-> h[c].f1, c2 |-> h[c].f2,
       has |-> a # NULL,
       a1 |-> IF a # NULL THEN h[a].f1 ELSE 0,
       a2 |-> IF a # NULL THEN h[a].f2 ELSE 0]

NoReader == cardano_cbor_reader_new(<<>>, "none")
EmptyHeap == [i \in Ids |-> FreeObj]

\* what a call finds: the heap and the caller's pointers
NoPre ==
  [heap |-> EmptyHeap, certp |-> [q \in CertPtrs |-> NULL],
   childp |-> [k \in ChildPtrs |-> NULL],
   scriptp |-> [k \in ScriptPtrs |-> NULL]]

NoCall == [op |-> "", kind |-> "", ptr |-> "", err |-> "", peeked |-> ""]
Summary(l) == [op |-> l.op, kind |-> l.kind, ptr |-> l.ptr, err |-> l.err, peeked |-> l.peeked]

\* the record of a call; before is the call that preceded it, kept for
\* to_cbor only; pre is what the call found; args, ret and mid are filled
\* in by the calls on objects; handed counts, for each object, the
\* references the calls so far have handed to the caller (a child
\* constructor or a getter returning it) less those the caller has given
\* back (unref of a child)
Call(op, kind, ptr, err, trace, wrote, rd, peeked) ==
  [op |-> op, kind |-> kind, ptr |-> ptr, err |-> err, trace |-> trace,
   wrote |-> wrote, rd |-> rd, peeked |-> peeked,
   before |-> IF op = "to_cbor" THEN Summary(last) ELSE NoCall,
   pre |-> [heap |-> heap, certp |-> certp, childp |-> childp, scriptp |-> scriptp],
   args |-> <<>>, ret |-> NULL, mid |-> <<>>,
   handed |-> last.handed]

\* the record of a call on an object: its arguments, what it returned
\* (NULL for a call that returns nothing or an error code only) and the
\* heaps between its steps
ObjectCall(op, kind, ptr, args, err, ret, mid) ==
  [Call(op, kind, ptr, err, <<>>, FALSE, NoReader, "")
     EXCEPT !.args = args, !.ret = ret, !.mid = mid]
NoWriter == [toks |-> <<>>, fault |-> "none", err |-> "", of |-> NoValue]
NoLast ==
  [op |-> "", kind |-> "", ptr |-> "", err |-> "", trace |-> <<>>,
   wrote |-> FALSE, rd |-> NoReader, peeked |-> "", before |-> NoCall,
   pre |-> NoPre, args |-> <<>>, ret |-> NULL, mid |-> <<>>,
   handed |-> [i \in Ids |-> 0]]

(***************************************************************************)
(* Inputs of the decoders: every array of up to MaxArrayLen elements drawn *)
(* from discriminants, null, credentials, anchors and a malformed item,    *)
(* and two inputs that are not arrays.                                     *)
(***************************************************************************)
Items ==
  {<<Tok("uint", CARDANO_CERT_TYPE_STAKE_REGISTRATION)>>,
   <<Tok("uint", CARDANO_CERT_TYPE_UPDATE_DREP)>>,
   <<Tok("null", 0)>>, <<Tok("bad", 0)>>}
  \cup {CredentialEncoding(v) : v \in CredentialValues}
  \cup {AnchorEncoding(v) : v \in AnchorValues}

RECURSIVE Flatten(_)
Flatten(ss) == IF ss = <<>> THEN <<>> ELSE Head(ss) \o Flatten(Tail(ss))

ArrayOf(ss) == <<Tok("arr", Len(ss))>> \o Flatten(ss)

Inputs ==
  {ArrayOf(ss) : ss \in UNION {[1..n -> Items] : n \in 0..MaxArrayLen}}
  \cup {<<>>, <<Tok("uint", CARDANO_CERT_TYPE_UPDATE_DREP)>>}

(***************************************************************************)
(* Native scripts as values: the variant, its payload (the key hash, the   *)
(* slot or the required count) and the sub-scripts in order.  The caller   *)
(* builds a script from a value through the constructors and releases its  *)
(* own references to the parts, so that the script alone holds them.       *)
(***************************************************************************)
ScriptLeaf(kind, v) == [kind |-> kind, v |-> v, children |-> <<>>]

ScriptLeaves ==
  {ScriptLeaf("script_pubkey", x) : x \in Hashes}
  \cup {ScriptLeaf("script_invalid_after", 1), ScriptLeaf("script_invalid_before", 1)}

\* the variants with sub-scripts and their payloads
ScriptListVariants ==
  {<<"script_all", 0>>, <<"script_any", 0>>}
  \cup {<<"script_n_of_k", r>> : r \in 0..MaxRequired}

\* the number of objects a script is made of
RECURSIVE ScriptCells(_)
RECURSIVE ScriptCellsOf(_)
ScriptCellsOf(cs) == IF cs = <<>> THEN 0 ELSE ScriptCells(Head(cs)) + ScriptCellsOf(Tail(cs))
ScriptCells(t) ==
  IF t.kind \in ScriptLeafKinds THEN 1 ELSE 2 + ScriptCellsOf(t.children)

\* the scripts of at most c objects, and the lists of at most n such
\* scripts that have at most c objects together
RECURSIVE ScriptTreesWithin(_)
RECURSIVE ScriptListsWithin(_, _)
ScriptListsWithin(c, n) ==
  {<<>>} \cup
  (IF n = 0 \/ c <= 0 THEN {}
   ELSE UNION {{<<t>> \o s : s \in ScriptListsWithin(c - ScriptCells(t), n - 1)} :
                 t \in ScriptTreesWithin(c)})

ScriptTreesWithin(c) ==
  IF c <= 0 THEN {}
  ELSE ScriptLeaves \cup
       {[kind |-> k[1], v |-> k[2], children |-> cs] :
          k \in ScriptListVariants, cs \in ScriptListsWithin(c - 2, MaxArrayLen)}

ScriptTrees == ScriptTreesWithin(MaxCells)

\* the value of the script at p
RECURSIVE NativeScriptValue(_, _)
NativeScriptValue(h, p) ==
  [kind |-> h[p].kind, v |-> h[p].f1,
   children |-> IF h[p].kind \in ScriptLeafKinds THEN <<>>
                ELSE [i \in 1..Len(h[h[p].scripts].items) |->
                        NativeScriptValue(h, h[h[p].scripts].items[i])]]

\* the heap and the script once the caller, having built it on list l, has
\* released l
BuiltScriptFrom(n, l) ==
  [heap |-> cardano_native_script_list_unref(n.heap, l), val |-> n.val]

BuiltScriptOn(l, required) ==
  BuiltScriptFrom(cardano_script_n_of_k_new(l.heap, l.val, required, FALSE, FALSE), l.val)

BuiltAllAnyOn(l, kind) ==
  BuiltScriptFrom(IF kind = "script_all" THEN cardano_script_all_new(l.heap, l.val)
                  ELSE cardano_script_any_new(l.heap, l.val), l.val)

RECURSIVE BuiltNativeScript(_, _)
RECURSIVE BuiltScriptList(_, _)
\* c is a script the caller built; it adds it to the list and releases it
BuiltScriptListAdd(c, list) ==
  [heap |-> cardano_native_script_unref(
              cardano_native_script_list_add(c.heap, list, c.val), c.val),
   val  |-> list]

BuiltScriptList(l, cs) ==
  IF cs = <<>> THEN l
  ELSE BuiltScriptList(BuiltScriptListAdd(BuiltNativeScript(l.heap, Head(cs)), l.val),
                       Tail(cs))

BuiltNativeScript(h, t) ==
  CASE t.kind = "script_pubkey"         -> cardano_script_pubkey_new(h, t.v)
    [] t.kind = "script_invalid_after"  -> cardano_script_invalid_after_new(h, t.v)
    [] t.kind = "script_invalid_before" -> cardano_script_invalid_before_new(h, t.v)
    [] t.kind = "script_n_of_k" ->
         BuiltScriptOn(BuiltScriptList(cardano_native_script_list_new(h), t.children), t.v)
    [] OTHER ->
         BuiltAllAnyOn(BuiltScriptList(cardano_native_script_list_new(h), t.children), t.kind)

\* an n-of-k script over length key-hash scripts
BuiltScript(h, length, required) ==
  BuiltNativeScript(h, [kind |-> "script_n_of_k", v |-> required,
                        children |-> [i \in 1..length |-> ScriptLeaf("script_pubkey", 1)]])

(***************************************************************************)
(* Actions: one per call of the API.                                       *)
(***************************************************************************)
\* what a decoder call leaves behind: r is what the decoder returned
DecoderReturns(kind, q, r) ==
  /\ heap' = r.heap
  /\ certp' = IF r.wrote THEN [certp EXCEPT ![q] = r.out] ELSE certp
  /\ last' = Call("from_cbor", kind, q, r.err, r.trace, r.wrote, r.rd, r.peeked)
  /\ UNCHANGED <<childp, scriptp, reader, writer>>

\* cardano_update_drep_cert_from_cbor(rd, &certp[q])
UpdateDRepFromCbor(q, rd) ==
  /\ certp[q] = NULL
  /\ Cardinality(FreeIds(heap)) >= 3
  /\ DecoderReturns("update_drep_cert", q,
       cardano_update_drep_cert_from_cbor(rd, heap, FALSE, FALSE, rd.fault = "new"))

\* cardano_stake_registration_cert_from_cbor(rd, &certp[q])
StakeRegistrationFromCbor(q, rd) ==
  /\ certp[q] = NULL
  /\ Cardinality(FreeIds(heap)) >= 2
  /\ DecoderReturns("stake_registration_cert", q,
       cardano_stake_registration_cert_from_cbor(rd, heap, FALSE, FALSE, rd.fault = "new"))

\* an encoder that keeps a reference to the certificate it encodes
EncoderReturns_KeepsReference(kind, q, fault, r) ==
  /\ writer' = [toks |-> r.w.toks, fault |-> fault, err |-> r.err,
                of |-> CertValue(heap, certp[q])]
  /\ last' = Call("to_cbor", kind, q, r.err, r.trace, FALSE, NoReader, "")
  /\ heap' = cardano_object_ref(heap, certp[q])
  /\ UNCHANGED <<certp, childp, scriptp, reader>>

\* what an encoder call leaves behind: r is what the encoder returned
EncoderReturns(kind, q, fault, r) ==
  /\ writer' = [toks |-> r.w.toks, fault |-> fault, err |-> r.err,
                of |-> CertValue(heap, certp[q])]
  /\ last' = Call("to_cbor", kind, q, r.err, r.trace, FALSE, NoReader, "")
  /\ UNCHANGED <<heap, certp, childp, scriptp, reader>>

\* cardano_update_drep_cert_to_cbor(certp[q], writer) on a new writer
UpdateDRepToCbor(q, fault) ==
  /\ certp[q] # NULL
  /\ heap[certp[q]].kind = "update_drep_cert"
  /\ EncoderReturns("update_drep_cert", q, fault,
       cardano_update_drep_cert_to_cbor(heap, certp[q], cardano_cbor_writer_new(fault), FALSE))

\* cardano_stake_registration_cert_to_cbor(certp[q], writer) on a new writer
StakeRegistrationToCbor(q, fault) ==
  /\ certp[q] # NULL
  /\ heap[certp[q]].kind = "stake_registration_cert"
  /\ EncoderReturns("stake_registration_cert", q, fault,
       cardano_stake_registration_cert_to_cbor(heap, certp[q], cardano_cbor_writer_new(fault), FALSE))

\* what an unref call leaves behind: r is the heap and the caller's pointer
UnrefReturns(kind, q, r) ==
  /\ heap' = r.heap
  /\ certp' = [certp EXCEPT ![q] = r.ptr]
  /\ last' = Call("unref", kind, q, CARDANO_SUCCESS, <<>>, FALSE, NoReader, "")
  /\ UNCHANGED <<childp, scriptp, reader, writer>>

\* cardano_update_drep_cert_unref(&certp[q])
UpdateDRepUnref(q) ==
  /\ certp[q] # NULL
  /\ heap[certp[q]].kind = "update_drep_cert"
  /\ UnrefReturns("update_drep_cert", q, cardano_update_drep_cert_unref(heap, certp[q]))

\* cardano_stake_registration_cert_unref(&certp[q])
StakeRegistrationUnref(q) ==
  /\ certp[q] # NULL
  /\ heap[certp[q]].kind = "stake_registration_cert"
  /\ UnrefReturns("stake_registration_cert", q,
                  cardano_stake_registration_cert_unref(heap, certp[q]))

(***************************************************************************)
(* SpecDecode: the decoders on every input and under every collaborator    *)
(* failure.  The input and the failing call site are drawn initially.      *)
(***************************************************************************)
InitDecode ==
  /\ heap = EmptyHeap
  /\ certp = [q \in CertPtrs |-> NULL]
  /\ childp = [k \in ChildPtrs |-> NULL]
  /\ scriptp = [k \in ScriptPtrs |-> NULL]
  /\ reader \in {cardano_cbor_reader_new(toks, fault) :
                   toks \in Inputs, fault \in UpdateDRepDecodeFaults}
  /\ writer = NoWriter
  /\ last = NoLast

DecodeUpdateDRep == UpdateDRepFromCbor("y", reader)

DecodeStakeRegistration == StakeRegistrationFromCbor("y", reader)

ReleaseUpdateDRep == UpdateDRepUnref("y")

ReleaseStakeRegistration == StakeRegistrationUnref("y")

NextDecode ==
  \/ DecodeUpdateDRep
  \/ DecodeStakeRegistration
  \/ ReleaseUpdateDRep
  \/ ReleaseStakeRegistration

SpecDecode == InitDecode /\ [][NextDecode]_vars

(***************************************************************************)
(* SpecCodec: a certificate x of any value is encoded, what was written is *)
(* decoded into y, and y is encoded in turn.  Initially the caller has     *)
(* built x from a new credential and anchor (or no anchor) and released    *)
(* its own references to them.                                             *)
(***************************************************************************)
\* the heap and the certificate once the caller, having built it from
\* credential c and anchor a, has released c and a
BuiltFrom(n, c, a) ==
  [heap |-> cardano_anchor_unref(cardano_credential_unref(n.heap, c), a), val |-> n.val]

BuiltUpdateDRepWith(a, c) ==
  BuiltFrom(cardano_update_drep_cert_new(a.heap, c.val, a.val, FALSE, FALSE), c.val, a.val)

BuiltUpdateDRepOn(c, withAnchor, av) ==
  BuiltUpdateDRepWith(IF withAnchor THEN cardano_anchor_new(c.heap, av)
                      ELSE [err |-> CARDANO_SUCCESS, heap |-> c.heap, val |-> NULL], c)

BuiltUpdateDRep(cv, withAnchor, av) ==
  BuiltUpdateDRepOn(cardano_credential_new(EmptyHeap, cv), withAnchor, av)

BuiltStakeRegistrationOn(c) ==
  BuiltFrom(cardano_stake_registration_cert_new(c.heap, c.val, FALSE, FALSE), c.val, NULL)

BuiltStakeRegistration(cv) ==
  BuiltStakeRegistrationOn(cardano_credential_new(EmptyHeap, cv))

BuiltCertificates ==
  {BuiltUpdateDRep(cv, wa, av) : cv \in CredentialValues, wa \in BOOLEAN, av \in AnchorValues}
  \cup {BuiltStakeRegistration(cv) : cv \in CredentialValues}

InitCodec ==
  /\ \E b \in BuiltCertificates :
       /\ heap = b.heap
       /\ certp = [q \in CertPtrs |-> IF q = "x" THEN b.val ELSE NULL]
  /\ childp = [k \in ChildPtrs |-> NULL]
  /\ scriptp = [k \in ScriptPtrs |-> NULL]
  /\ reader = NoReader
  /\ writer = NoWriter
  /\ last = NoLast

EncodeUpdateDRep ==
  \E q \in CertPtrs, fault \in UpdateDRepEncodeFaults : UpdateDRepToCbor(q, fault)

EncodeStakeRegistration ==
  \E q \in CertPtrs, fault \in StakeRegistrationEncodeFaults : StakeRegistrationToCbor(q, fault)

DecodeWrittenUpdateDRep ==
  /\ writer.err # ""
  /\ \E fault \in UpdateDRepDecodeFaults :
       UpdateDRepFromCbor("y", cardano_cbor_reader_new(writer.toks, fault))

DecodeWrittenStakeRegistration ==
  /\ writer.err # ""
  /\ \E fault \in StakeRegistrationDecodeFaults :
       StakeRegistrationFromCbor("y", cardano_cbor_reader_new(writer.toks, fault))

UnrefUpdateDRep == \E q \in CertPtrs : UpdateDRepUnref(q)

UnrefStakeRegistration == \E q \in CertPtrs : StakeRegistrationUnref(q)

NextCodec ==
  \/ EncodeUpdateDRep
  \/ EncodeStakeRegistration
  \/ DecodeWrittenUpdateDRep
  \/ DecodeWrittenStakeRegistration
  \/ UnrefUpdateDRep
  \/ UnrefStakeRegistration

SpecCodec == InitCodec /\ [][NextCodec]_vars

(***************************************************************************)
(* SpecLifecycle: the caller builds credentials, anchors and certificates, *)
(* shares and releases them, reads and replaces the certificates' fields,  *)
(* decodes and encodes.  The caller keeps to the API's contract: it passes *)
(* only null or pointers to live objects of the right type, and it         *)
(* releases only references it owns.  It works through one certificate    *)
(* pointer, and it releases the writer of a to_cbor call before its next   *)
(* call.                                                                   *)
(***************************************************************************)
LifecyclePtrs == {"x"}

\* the values the caller builds credentials and anchors from
LifecycleCredentials == {v \in CredentialValues : v.f2 = 1}
LifecycleAnchors == {v \in AnchorValues : v.f1 = 1 /\ v.f2 = 1}

\* the caller holds no writer
NoWriterHeld == writer = NoWriter

ChildKind(k) == IF k = "c" THEN "credential" ELSE "anchor"

\* the count of references handed to the caller, after d more for object p
Handed(f, p, d) == IF p = NULL THEN f ELSE [f EXCEPT ![p] = @ + d]

\* the references to object p held by the certificates and scripts in the
\* heap
Holders(h, p) ==
  {i \in Ids : h[i].credential = p \/ h[i].anchor = p \/ h[i].scripts = p}

\* the references to child p that belong to the caller
CallerRefs(h, p) == h[p].ref_count - Cardinality(Holders(h, p))

\* the caller's pointer k points to a live object of its type
Usable(k) == Live(heap, childp[k]) /\ heap[childp[k]].kind = ChildKind(k)

\* the caller owns a reference to what its pointer k points to
Owns(k) == Usable(k) /\ CallerRefs(heap, childp[k]) > 0

\* what the caller may pass for a child argument
ChildArgs(k) == {NULL} \cup {childp[j] : j \in {i \in {k} : Usable(i)}}

IsCert(q, kind) == certp[q] # NULL /\ heap[certp[q]].kind = kind

\* what the caller may pass for a certificate argument of the given type
NullOrCert(q, kind) == certp[q] = NULL \/ IsCert(q, kind)

\* cardano_credential_new / cardano_anchor_new into the caller's pointer k
ChildNewReturns(k, v, r) ==
  /\ NoWriterHeld
  /\ heap' = r.heap
  /\ childp' = [childp EXCEPT ![k] = r.val]
  /\ last' = [ObjectCall("child_new", ChildKind(k), k, <<v>>, r.err, r.val, <<>>)
                EXCEPT !.handed = Handed(last.handed, r.val, 1)]
  /\ UNCHANGED <<certp, scriptp, reader, writer>>

CredentialNew ==
  /\ ~Owns("c")
  /\ \E v \in LifecycleCredentials :
       ChildNewReturns("c", v, cardano_credential_new(heap, v))

AnchorNew ==
  /\ ~Owns("a")
  /\ \E v \in LifecycleAnchors :
       ChildNewReturns("a", v, cardano_anchor_new(heap, v))

\* cardano_credential_unref(&c) / cardano_anchor_unref(&a): h is the heap
\* after it; the pointer is nulled when the object is gone
ChildUnrefReturns(k, h) ==
  /\ NoWriterHeld
  /\ heap' = h
  /\ childp' = IF Live(h, childp[k]) THEN childp ELSE [childp EXCEPT ![k] = NULL]
  /\ last' = [ObjectCall("child_unref", ChildKind(k), k, <<childp[k]>>,
                         CARDANO_SUCCESS, NULL, <<>>)
                EXCEPT !.handed = Handed(last.handed, childp[k], -1)]
  /\ UNCHANGED <<certp, scriptp, reader, writer>>

CredentialUnref ==
  /\ Owns("c")
  /\ ChildUnrefReturns("c", cardano_credential_unref(heap, childp["c"]))

AnchorUnref ==
  /\ Owns("a")
  /\ ChildUnrefReturns("a", cardano_anchor_unref(heap, childp["a"]))

\* what a constructor call leaves behind: r is what the constructor returned
NewReturns(kind, q, args, r) ==
  /\ NoWriterHeld
  /\ heap' = r.heap
  /\ certp' = IF r.wrote THEN [certp EXCEPT ![q] = r.val] ELSE certp
  /\ last' = ObjectCall("new", kind, q, args, r.err, r.val, <<>>)
  /\ UNCHANGED <<childp, scriptp, reader, writer>>

\* cardano_update_drep_cert_new(credential, anchor, &certp[q]), or with a
\* null output pointer
UpdateDRepNew ==
  \E q \in LifecyclePtrs, credential \in ChildArgs("c"), anchor \in ChildArgs("a"),
     outIsNull \in BOOLEAN, mallocFails \in BOOLEAN :
    /\ certp[q] = NULL
    /\ FreeIds(heap) # {}
    /\ NewReturns("update_drep_cert", q, <<credential, anchor, outIsNull, mallocFails>>,
         cardano_update_drep_cert_new(heap, credential, anchor, outIsNull, mallocFails))

\* cardano_stake_registration_cert_new(credential, &certp[q])
StakeRegistrationNew ==
  \E q \in LifecyclePtrs, credential \in ChildArgs("c"),
     outIsNull \in BOOLEAN, mallocFails \in BOOLEAN :
    /\ certp[q] = NULL
    /\ FreeIds(heap) # {}
    /\ NewReturns("stake_registration_cert", q, <<credential, NULL, outIsNull, mallocFails>>,
         cardano_stake_registration_cert_new(heap, credential, outIsNull, mallocFails))

\* what a setter call leaves behind: r is what the setter returned
SetReturns(op, kind, q, value, r) ==
  /\ NoWriterHeld
  /\ heap' = r.heap
  /\ last' = ObjectCall(op, kind, q, <<certp[q], value>>, r.err, NULL, r.mid)
  /\ UNCHANGED <<certp, childp, scriptp, reader, writer>>

UpdateDRepSetCredential ==
  \E q \in LifecyclePtrs, credential \in ChildArgs("c") :
    /\ NullOrCert(q, "update_drep_cert")
    /\ SetReturns("set_credential", "update_drep_cert", q, credential,
         cardano_update_drep_cert_set_credential(heap, certp[q], credential))

UpdateDRepSetAnchor ==
  \E q \in LifecyclePtrs, anchor \in ChildArgs("a") :
    /\ NullOrCert(q, "update_drep_cert")
    /\ SetReturns("set_anchor", "update_drep_cert", q, anchor,
         cardano_update_drep_cert_set_anchor(heap, certp[q], anchor))

StakeRegistrationSetCredential ==
  \E q \in LifecyclePtrs, credential \in ChildArgs("c") :
    /\ NullOrCert(q, "stake_registration_cert")
    /\ SetReturns("set_credential", "stake_registration_cert", q, credential,
         cardano_stake_registration_cert_set_credential(heap, certp[q], credential))

\* what a getter call leaves behind: r is the heap and the pointer returned,
\* which the caller keeps in its pointer k
GetReturns(op, kind, q, k, r) ==
  /\ NoWriterHeld
  /\ ~Owns(k) \/ r.val = childp[k]
  /\ r.val # NULL => heap[r.val].ref_count < MaxRefs
  /\ heap' = r.heap
  /\ childp' = [childp EXCEPT ![k] = r.val]
  /\ last' = [ObjectCall(op, kind, q, <<certp[q]>>, CARDANO_SUCCESS, r.val, <<>>)
                EXCEPT !.handed = Handed(last.handed, r.val, 1)]
  /\ UNCHANGED <<certp, scriptp, reader, writer>>

UpdateDRepGetCredential ==
  \E q \in LifecyclePtrs :
    /\ NullOrCert(q, "update_drep_cert")
    /\ GetReturns("get_credential", "update_drep_cert", q, "c",
         cardano_update_drep_cert_get_credential(heap, certp[q]))

UpdateDRepGetAnchor ==
  \E q \in LifecyclePtrs :
    /\ NullOrCert(q, "update_drep_cert")
    /\ GetReturns("get_anchor", "update_drep_cert", q, "a",
         cardano_update_drep_cert_get_anchor(heap, certp[q]))

StakeRegistrationGetCredential ==
  \E q \in LifecyclePtrs :
    /\ NullOrCert(q, "stake_registration_cert")
    /\ GetReturns("get_credential", "stake_registration_cert", q, "c",
         cardano_stake_registration_cert_get_credential(heap, certp[q]))

\* what a ref call leaves behind: h is the heap after it
RefReturns(kind, q, h) ==
  /\ NoWriterHeld
  /\ heap' = h
  /\ last' = ObjectCall("ref", kind, q, <<certp[q]>>, CARDANO_SUCCESS, NULL, <<>>)
  /\ UNCHANGED <<certp, childp, scriptp, reader, writer>>

UpdateDRepRef ==
  \E q \in LifecyclePtrs :
    /\ IsCert(q, "update_drep_cert")
    /\ heap[certp[q]].ref_count < MaxRefs
    /\ RefReturns("update_drep_cert", q, cardano_update_drep_cert_ref(heap, certp[q]))

StakeRegistrationRef ==
  \E q \in LifecyclePtrs :
    /\ IsCert(q, "stake_registration_cert")
    /\ heap[certp[q]].ref_count < MaxRefs
    /\ RefReturns("stake_registration_cert", q,
                  cardano_stake_registration_cert_ref(heap, certp[q]))

\* cardano_update_drep_cert_refcount(certp[q]); the count is what is returned
RefcountReturns(kind, q, n) ==
  /\ NoWriterHeld
  /\ last' = ObjectCall("refcount", kind, q, <<certp[q]>>, CARDANO_SUCCESS, n, <<>>)
  /\ UNCHANGED <<heap, certp, childp, scriptp, reader, writer>>

UpdateDRepRefcount ==
  \E q \in LifecyclePtrs :
    /\ NullOrCert(q, "update_drep_cert")
    /\ RefcountReturns("update_drep_cert", q,
                       cardano_update_drep_cert_refcount(heap, certp[q]))

StakeRegistrationRefcount ==
  \E q \in LifecyclePtrs :
    /\ NullOrCert(q, "stake_registration_cert")
    /\ RefcountReturns("stake_registration_cert", q,
                       cardano_stake_registration_cert_refcount(heap, certp[q]))

\* the encodings the caller decodes: an update-DRep certificate with an
\* anchor and with null, and a stake registration
LifecycleInputs(kind) ==
  IF kind = "update_drep_cert"
    THEN {ArrayOf(<<<<Tok("uint", CARDANO_CERT_TYPE_UPDATE_DREP)>>, CredentialEncoding(cv), a>>) :
            cv \in LifecycleCredentials,
            a \in {<<Tok("null", 0)>>} \cup {AnchorEncoding(av) : av \in LifecycleAnchors}}
    ELSE {ArrayOf(<<<<Tok("uint", CARDANO_CERT_TYPE_STAKE_REGISTRATION)>>, CredentialEncoding(cv)>>) :
            cv \in LifecycleCredentials}

LifecycleDecodeUpdateDRep ==
  /\ NoWriterHeld
  /\ \E q \in LifecyclePtrs, toks \in LifecycleInputs("update_drep_cert") :
       UpdateDRepFromCbor(q, cardano_cbor_reader_new(toks, "none"))

LifecycleDecodeStakeRegistration ==
  /\ NoWriterHeld
  /\ \E q \in LifecyclePtrs, toks \in LifecycleInputs("stake_registration_cert") :
       StakeRegistrationFromCbor(q, cardano_cbor_reader_new(toks, "none"))

LifecycleEncodeUpdateDRep ==
  /\ NoWriterHeld
  /\ \E q \in LifecyclePtrs : UpdateDRepToCbor(q, "none")

LifecycleEncodeStakeRegistration ==
  /\ NoWriterHeld
  /\ \E q \in LifecyclePtrs : StakeRegistrationToCbor(q, "none")

LifecycleUnrefUpdateDRep ==
  /\ NoWriterHeld
  /\ \E q \in LifecyclePtrs : UpdateDRepUnref(q)

LifecycleUnrefStakeRegistration ==
  /\ NoWriterHeld
  /\ \E q \in LifecyclePtrs : StakeRegistrationUnref(q)

\* cardano_cbor_writer_unref(&writer): the caller releases the writer
WriterUnref ==
  /\ ~NoWriterHeld
  /\ writer' = NoWriter
  /\ last' = ObjectCall("writer_unref", "writer", "", <<>>, CARDANO_SUCCESS, NULL, <<>>)
  /\ UNCHANGED <<heap, certp, childp, scriptp, reader>>

InitLifecycle ==
  /\ heap = EmptyHeap
  /\ certp = [q \in CertPtrs |-> NULL]
  /\ childp = [k \in ChildPtrs |-> NULL]
  /\ scriptp = [k \in ScriptPtrs |-> NULL]
  /\ reader = NoReader
  /\ writer = NoWriter
  /\ last = NoLast

NextLifecycle ==
  \/ CredentialNew
  \/ AnchorNew
  \/ CredentialUnref
  \/ AnchorUnref
  \/ UpdateDRepNew
  \/ StakeRegistrationNew
  \/ UpdateDRepSetCredential
  \/ UpdateDRepSetAnchor
  \/ StakeRegistrationSetCredential
  \/ UpdateDRepGetCredential
  \/ UpdateDRepGetAnchor
  \/ StakeRegistrationGetCredential
  \/ UpdateDRepRef
  \/ StakeRegistrationRef
  \/ UpdateDRepRefcount
  \/ StakeRegistrationRefcount
  \/ LifecycleUnrefUpdateDRep
  \/ LifecycleUnrefStakeRegistration
  \/ LifecycleDecodeUpdateDRep
  \/ LifecycleDecodeStakeRegistration
  \/ LifecycleEncodeUpdateDRep
  \/ LifecycleEncodeStakeRegistration
  \/ WriterUnref

SpecLifecycle == InitLifecycle /\ [][NextLifecycle]_vars

(***************************************************************************)
(* SpecAccessors: the getters.  Initially the caller has built a           *)
(* certificate x and an n-of-k script s and has released its own           *)
(* references to their children; it then calls the getters and releases    *)
(* the references they hand out.                                           *)
(***************************************************************************)
\* the caller owns a reference to the list its pointer l points to
OwnsList ==
  /\ Live(heap, scriptp["l"])
  /\ heap[scriptp["l"]].kind = "native_script_list"
  /\ CallerRefs(heap, scriptp["l"]) > 0

\* cardano_script_n_of_k_get_scripts(p, &l), or with a null output pointer:
\* r is what it returned
GetScriptsReturns(p, listIsNull, r) ==
  /\ ~OwnsList \/ r.val = scriptp["l"]
  /\ r.val # NULL => heap[r.val].ref_count < MaxRefs
  /\ heap' = r.heap
  /\ scriptp' = IF r.err = CARDANO_SUCCESS THEN [scriptp EXCEPT !["l"] = r.val] ELSE scriptp
  /\ last' = ObjectCall("get_scripts", "script_n_of_k", "s", <<p, listIsNull>>,
                        r.err, r.val, <<>>)
  /\ UNCHANGED <<certp, childp, reader, writer>>

ScriptNOfKGetScripts ==
  \E p \in {NULL, scriptp["s"]}, listIsNull \in BOOLEAN :
    /\ p # NULL => heap[p].kind = "script_n_of_k"
    /\ GetScriptsReturns(p, listIsNull,
                         cardano_script_n_of_k_get_scripts(heap, p, listIsNull))

\* cardano_native_script_list_unref(&l): h is the heap after it
ScriptListUnref ==
  /\ OwnsList
  /\ heap' = cardano_native_script_list_unref(heap, scriptp["l"])
  /\ scriptp' = IF heap[scriptp["l"]].ref_count > 1 THEN scriptp
                ELSE [scriptp EXCEPT !["l"] = NULL]
  /\ last' = ObjectCall("child_unref", "native_script_list", "l", <<scriptp["l"]>>,
                        CARDANO_SUCCESS, NULL, <<>>)
  /\ UNCHANGED <<certp, childp, reader, writer>>

InitAccessors ==
  /\ \E b \in BuiltCertificates, length \in 0..MaxScripts, required \in 0..MaxScripts :
       /\ heap = BuiltScript(b.heap, length, required).heap
       /\ certp = [q \in CertPtrs |-> IF q = "x" THEN b.val ELSE NULL]
       /\ scriptp = [k \in ScriptPtrs |->
                       IF k = "s" THEN BuiltScript(b.heap, length, required).val ELSE NULL]
  /\ childp = [k \in ChildPtrs |-> NULL]
  /\ reader = NoReader
  /\ writer = NoWriter
  /\ last = NoLast

NextAccessors ==
  \/ UpdateDRepGetCredential
  \/ UpdateDRepGetAnchor
  \/ StakeRegistrationGetCredential
  \/ ScriptNOfKGetScripts
  \/ CredentialUnref
  \/ AnchorUnref
  \/ ScriptListUnref

SpecAccessors == InitAccessors /\ [][NextAccessors]_vars

(***************************************************************************)
(* SpecScripts: the native scripts.  Initially the caller has built a      *)
(* script s of any value within the bounds, and possibly a second n-of-k   *)
(* script t over the same sub-scripts in some order.  It encodes s into    *)
(* writers of every capacity, decodes what was written, intact or with one *)
(* item damaged, into t, compares, reads and sets the required count, and  *)
(* shares and releases the scripts.                                        *)
(***************************************************************************)
IsScript(q) == scriptp[q] # NULL /\ heap[scriptp[q]].kind # "native_script_list"
IsNOfK(q) == scriptp[q] # NULL /\ heap[scriptp[q]].kind = "script_n_of_k"

\* the orders in which the n sub-scripts of s can be put in a second list
Orders(n) == {f \in [1..n -> 1..n] : \A i, j \in 1..n : f[i] = f[j] => i = j}

\* the caller builds a second n-of-k script on a new list that holds the
\* sub-scripts of p in the order f
RECURSIVE SiblingList(_, _, _, _)
SiblingList(l, src, f, i) ==
  IF i > Len(f) THEN l
  ELSE SiblingList([heap |-> cardano_native_script_list_add(l.heap, l.val, src[f[i]]),
                    val  |-> l.val], src, f, i + 1)

BuiltSibling(b, f, required) ==
  BuiltScriptOn(SiblingList(cardano_native_script_list_new(b.heap),
                            b.heap[b.heap[b.val].scripts].items, f, 1), required)

\* the capacities of the writers: none, enough for what is written before
\* the first sub-script only, and more than any script needs
ScriptCapacities == {0, ScriptArity("script_n_of_k") + 1, 3 * MaxCells}

\* the inputs decoded: what was written, intact or with one item replaced
\* by a malformed item or by another unsigned integer
Damage == {Tok("bad", 0), Tok("uint", MaxRequired + 1)}

Damaged(toks) ==
  {toks} \cup {[toks EXCEPT ![i] = x] : i \in 1..Len(toks), x \in Damage}

\* cardano_script_n_of_k_to_cbor(s, writer) on a new writer of capacity cap
\* (the encoder of its own variant for another script): r is what it returned
ScriptEncoderReturns(q, r) ==
  /\ writer' = [toks |-> r.w.toks, fault |-> "none", err |-> r.err,
                of |-> NativeScriptValue(heap, scriptp[q])]
  /\ last' = [Call("to_cbor", heap[scriptp[q]].kind, q, r.err, <<>>, FALSE, NoReader, "")
                EXCEPT !.before = NoCall]
  /\ UNCHANGED <<heap, certp, childp, scriptp, reader>>

ScriptToCbor ==
  \E q \in {"s"}, cap \in ScriptCapacities :
    /\ IsScript(q)
    /\ writer = NoWriter
    /\ ScriptEncoderReturns(q,
         IF IsNOfK(q)
           THEN cardano_script_n_of_k_to_cbor(heap, scriptp[q], ScriptWriterNew(cap), FALSE)
           ELSE cardano_native_script_to_cbor(
                  [err |-> CARDANO_SUCCESS, w |-> ScriptWriterNew(cap)], heap, scriptp[q]))

\* cardano_script_n_of_k_from_cbor(reader, &t) (the decoder of any variant
\* for an input that was not written from an n-of-k script): r is what it
\* returned.  The caller releases the writer it read the input from; the
\* call is recorded with the value that was encoded and what was written.
ScriptDecoderReturns(kind, r) ==
  /\ heap' = r.heap
  /\ scriptp' = IF r.err = CARDANO_SUCCESS THEN [scriptp EXCEPT !["t"] = r.val] ELSE scriptp
  /\ writer' = NoWriter
  /\ last' = [Call("from_cbor", kind, "t", r.err, r.trace, r.err = CARDANO_SUCCESS, r.rd, "")
                EXCEPT !.args = <<writer.of>>, !.ret = r.val, !.mid = writer.toks]
  /\ UNCHANGED <<certp, childp, reader>>

ScriptFromCbor ==
  \E toks \in Damaged(writer.toks) :
    /\ writer # NoWriter
    /\ writer.err = CARDANO_SUCCESS
    /\ scriptp["t"] = NULL
    /\ Cardinality(FreeIds(heap)) >= ScriptCells(writer.of)
    /\ ScriptDecoderReturns(writer.of.kind,
         IF writer.of.kind = "script_n_of_k"
           THEN cardano_script_n_of_k_from_cbor(cardano_cbor_reader_new(toks, "none"),
                                                heap, FALSE, FALSE)
           ELSE cardano_native_script_from_cbor(cardano_cbor_reader_new(toks, "none"),
                                                heap, 0, <<>>))

\* the caller releases a writer it does not decode from
ScriptWriterUnref ==
  /\ writer # NoWriter
  /\ writer' = NoWriter
  /\ last' = ObjectCall("writer_unref", "writer", "", <<>>, CARDANO_SUCCESS, NULL, <<>>)
  /\ UNCHANGED <<heap, certp, childp, scriptp, reader>>

\* cardano_script_n_of_k_unref(&scriptp[q]): r is the heap and the pointer.
\* The caller can release a script it has encoded before it decodes.
ScriptUnrefReturns(q, r) ==
  /\ heap' = r.heap
  /\ scriptp' = [scriptp EXCEPT ![q] = r.ptr]
  /\ last' = ObjectCall("unref", heap[scriptp[q]].kind, q, <<scriptp[q]>>,
                        CARDANO_SUCCESS, NULL, <<>>)
  /\ UNCHANGED <<certp, childp, reader, writer>>

ScriptNOfKUnref ==
  \E q \in {"s", "t"} :
    /\ IsNOfK(q)
    /\ ScriptUnrefReturns(q, cardano_script_n_of_k_unref(heap, scriptp[q]))

\* cardano_script_all_unref, cardano_script_pubkey_unref, ...
ScriptOtherUnref ==
  \E q \in {"s", "t"} :
    /\ IsScript(q) /\ ~IsNOfK(q)
    /\ ScriptUnrefReturns(q, [heap |-> cardano_native_script_unref(heap, scriptp[q]),
                              ptr  |-> IF heap[scriptp[q]].ref_count > 1
                                         THEN scriptp[q] ELSE NULL])

\* cardano_script_n_of_k_ref(scriptp[q])
ScriptNOfKRef ==
  \E q \in {"s"} :
    /\ IsNOfK(q)
    /\ writer = NoWriter
    /\ heap[scriptp[q]].ref_count < MaxRefs
    /\ heap' = cardano_script_n_of_k_ref(heap, scriptp[q])
    /\ last' = ObjectCall("ref", "script_n_of_k", q, <<scriptp[q]>>, CARDANO_SUCCESS, NULL, <<>>)
    /\ UNCHANGED <<certp, childp, scriptp, reader, writer>>

\* a call that returns a number n and changes nothing
ScriptQueryReturns(op, q, args, n) ==
  /\ writer = NoWriter
  /\ last' = ObjectCall(op, "script_n_of_k", q, args, CARDANO_SUCCESS, n, <<>>)
  /\ UNCHANGED <<heap, certp, childp, scriptp, reader, writer>>

\* cardano_script_n_of_k_equals(s, t), answered as 1 or 0
ScriptNOfKEquals ==
  /\ IsNOfK("s") /\ IsNOfK("t")
  /\ ScriptQueryReturns("equals", "s", <<scriptp["s"], scriptp["t"]>>,
       IF cardano_script_n_of_k_equals(heap, scriptp["s"], scriptp["t"]) THEN 1 ELSE 0)

ScriptNOfKGetRequired ==
  \E q \in {"s", "t"} :
    /\ IsNOfK(q)
    /\ ScriptQueryReturns("get_required", q, <<scriptp[q]>>,
                          cardano_script_n_of_k_get_required(heap, scriptp[q]))

ScriptNOfKGetLength ==
  \E q \in {"s", "t"} :
    /\ IsNOfK(q)
    /\ ScriptQueryReturns("get_length", q, <<scriptp[q]>>,
                          cardano_script_n_of_k_get_length(heap, scriptp[q]))

\* cardano_script_n_of_k_set_required(scriptp[q], required): r is what it
\* returned
ScriptSetRequiredReturns(q, required, r) ==
  /\ writer = NoWriter
  /\ heap' = r.heap
  /\ last' = ObjectCall("set_required", "script_n_of_k", q, <<scriptp[q], required>>,
                        r.err, NULL, <<>>)
  /\ UNCHANGED <<certp, childp, scriptp, reader, writer>>

ScriptNOfKSetRequired ==
  \E q \in {"s"}, required \in 0..MaxRequired :
    /\ IsNOfK(q)
    /\ ScriptSetRequiredReturns(q, required,
         cardano_script_n_of_k_set_required(heap, scriptp[q], required))

\* the second scripts the caller can build over the sub-scripts of b, with
\* the required count of b
SiblingsOf(b) ==
  {[heap |-> BuiltSibling(b, f, b.heap[b.val].f1).heap, s |-> b.val,
    t |-> BuiltSibling(b, f, b.heap[b.val].f1).val] :
     f \in Orders(Len(b.heap[b.heap[b.val].scripts].items))}

\* the caller has built a script s of any value v within the bounds, with
\* the constructor of its variant (cardano_script_n_of_k_new for n-of-k);
\* the call is recorded with the value asked for
ScriptBuilt(v, b) ==
  /\ heap = b.heap
  /\ scriptp = [k \in ScriptPtrs |-> IF k = "s" THEN b.val ELSE NULL]
  /\ last = [NoLast EXCEPT !.op = "new", !.kind = v.kind, !.ptr = "s",
                           !.err = CARDANO_SUCCESS, !.args = <<v>>, !.ret = b.val]

InitScripts ==
  /\ \E v \in ScriptTrees : ScriptBuilt(v, BuiltNativeScript(EmptyHeap, v))
  /\ certp = [q \in CertPtrs |-> NULL]
  /\ childp = [k \in ChildPtrs |-> NULL]
  /\ reader = NoReader
  /\ writer = NoWriter

NextScripts ==
  \/ ScriptToCbor
  \/ ScriptFromCbor
  \/ ScriptWriterUnref
  \/ ScriptNOfKUnref
  \/ ScriptOtherUnref
  \/ ScriptNOfKEquals
  \/ ScriptNOfKGetRequired
  \/ ScriptNOfKGetLength
  \/ ScriptNOfKSetRequired

SpecScripts == InitScripts /\ [][NextScripts]_vars

(***************************************************************************)
(* SpecScriptObjects: two n-of-k scripts as objects.  Initially the caller *)
(* has built an n-of-k script s of any value and a second one, t, over the *)
(* same sub-scripts in any order.  It compares them, reads and sets the    *)
(* required count, and shares and releases them.                           *)
(***************************************************************************)
ScriptPairs ==
  UNION {SiblingsOf(BuiltNativeScript(EmptyHeap, v)) :
           v \in {u \in ScriptTreesWithin(MaxCells - 1) : u.kind = "script_n_of_k"}}

InitScriptObjects ==
  /\ \E b \in ScriptPairs :
       /\ heap = b.heap
       /\ scriptp = [k \in ScriptPtrs |->
                       IF k = "s" THEN b.s ELSE IF k = "t" THEN b.t ELSE NULL]
  /\ certp = [q \in CertPtrs |-> NULL]
  /\ childp = [k \in ChildPtrs |-> NULL]
  /\ reader = NoReader
  /\ writer = NoWriter
  /\ last = NoLast

NextScriptObjects ==
  \/ ScriptNOfKRef
  \/ ScriptNOfKUnref
  \/ ScriptNOfKEquals
  \/ ScriptNOfKGetRequired
  \/ ScriptNOfKGetLength
  \/ ScriptNOfKSetRequired

SpecScriptObjects == InitScriptObjects /\ [][NextScriptObjects]_vars

(***************************************************************************)
(* SpecNull: calls with null arguments.  Initially the caller has built a  *)
(* certificate x, holds a null certificate pointer y and a reader on the   *)
(* encoding of x.  It makes every call of the API on the null handle, and  *)
(* the codec calls with a null certificate, reader, writer or output       *)
(* pointer.                                                                *)
(***************************************************************************)
\* what to_cbor writes for the certificate p
CertEncoding(h, p) ==
  IF h[p].kind = "update_drep_cert"
    THEN cardano_update_drep_cert_to_cbor(h, p, cardano_cbor_writer_new("none"), FALSE).w.toks
    ELSE cardano_stake_registration_cert_to_cbor(h, p, cardano_cbor_writer_new("none"), FALSE).w.toks

\* what a call left behind: the error code, what it returned, the heap,
\* the calls made on the reader or writer, the reader and what was written
Outcome(err, ret, h, trace, rd, toks) ==
  [err |-> err, ret |-> ret, heap |-> h, trace |-> trace, rd |-> rd, toks |-> toks]

NullCallReturns(op, kind, args, r) ==
  /\ heap' = r.heap
  /\ last' = [ObjectCall(op, kind, "y", args, r.err, r.ret, r.toks)
                EXCEPT !.trace = r.trace, !.rd = r.rd]
  /\ UNCHANGED <<certp, childp, scriptp, reader, writer>>

\* cardano_update_drep_cert_refcount(NULL)
UpdateDRepNullRefcount ==
  NullCallReturns("refcount", "update_drep_cert", <<certp["y"]>>,
    Outcome(CARDANO_SUCCESS, cardano_update_drep_cert_refcount(heap, certp["y"]),
            heap, <<>>, reader, <<>>))

StakeRegistrationNullRefcount ==
  NullCallReturns("refcount", "stake_registration_cert", <<certp["y"]>>,
    Outcome(CARDANO_SUCCESS, cardano_stake_registration_cert_refcount(heap, certp["y"]),
            heap, <<>>, reader, <<>>))

\* cardano_update_drep_cert_ref(NULL)
UpdateDRepNullRef ==
  NullCallReturns("ref", "update_drep_cert", <<certp["y"]>>,
    Outcome(CARDANO_SUCCESS, NULL, cardano_update_drep_cert_ref(heap, certp["y"]),
            <<>>, reader, <<>>))

StakeRegistrationNullRef ==
  NullCallReturns("ref", "stake_registration_cert", <<certp["y"]>>,
    Outcome(CARDANO_SUCCESS, NULL, cardano_stake_registration_cert_ref(heap, certp["y"]),
            <<>>, reader, <<>>))

\* cardano_update_drep_cert_unref(&y) with y null, and
\* cardano_update_drep_cert_unref(NULL): r is the heap and the pointer
NullUnrefReturns(kind, ptrIsNull, r) ==
  NullCallReturns("unref", kind, <<certp["y"], ptrIsNull>>,
    Outcome(CARDANO_SUCCESS, r.ptr, r.heap, <<>>, reader, <<>>))

UpdateDRepNullUnref ==
  \E ptrIsNull \in BOOLEAN :
    NullUnrefReturns("update_drep_cert", ptrIsNull,
                     cardano_update_drep_cert_unref(heap, certp["y"]))

StakeRegistrationNullUnref ==
  \E ptrIsNull \in BOOLEAN :
    NullUnrefReturns("stake_registration_cert", ptrIsNull,
                     cardano_stake_registration_cert_unref(heap, certp["y"]))

\* cardano_update_drep_cert_get_credential(NULL), ...: r is the heap and
\* the pointer returned
NullGetReturns(op, kind, r) ==
  NullCallReturns(op, kind, <<certp["y"]>>,
    Outcome(CARDANO_SUCCESS, r.val, r.heap, <<>>, reader, <<>>))

UpdateDRepNullGetCredential ==
  NullGetReturns("get_credential", "update_drep_cert",
                 cardano_update_drep_cert_get_credential(heap, certp["y"]))

UpdateDRepNullGetAnchor ==
  NullGetReturns("get_anchor", "update_drep_cert",
                 cardano_update_drep_cert_get_anchor(heap, certp["y"]))

StakeRegistrationNullGetCredential ==
  NullGetReturns("get_credential", "stake_registration_cert",
                 cardano_stake_registration_cert_get_credential(heap, certp["y"]))

\* to_cbor with a null certificate, a null writer or both: r is what the
\* encoder returned
NullEncoderReturns(kind, args, r) ==
  NullCallReturns("to_cbor", kind, args,
    Outcome(r.err, NULL, heap, r.trace, reader, r.w.toks))

UpdateDRepNullToCbor ==
  \E q \in CertPtrs, writerIsNull \in BOOLEAN :
    /\ certp[q] = NULL \/ writerIsNull
    /\ IF certp[q] = NULL THEN TRUE ELSE heap[certp[q]].kind = "update_drep_cert"
    /\ NullEncoderReturns("update_drep_cert", <<certp[q], writerIsNull>>,
         cardano_update_drep_cert_to_cbor(heap, certp[q], cardano_cbor_writer_new("none"),
                                          writerIsNull))

StakeRegistrationNullToCbor ==
  \E q \in CertPtrs, writerIsNull \in BOOLEAN :
    /\ certp[q] = NULL \/ writerIsNull
    /\ IF certp[q] = NULL THEN TRUE ELSE heap[certp[q]].kind = "stake_registration_cert"
    /\ NullEncoderReturns("stake_registration_cert", <<certp[q], writerIsNull>>,
         cardano_stake_registration_cert_to_cbor(heap, certp[q],
                                                 cardano_cbor_writer_new("none"),
                                                 writerIsNull))

\* from_cbor with a null reader, a null output pointer or both: r is what
\* the decoder returned
NullDecoderReturns(kind, args, r) ==
  NullCallReturns("from_cbor", kind, args,
    Outcome(r.err, r.out, r.heap, r.trace, r.rd, <<>>))

UpdateDRepNullFromCbor ==
  \E readerIsNull, outIsNull \in BOOLEAN :
    /\ readerIsNull \/ outIsNull
    /\ NullDecoderReturns("update_drep_cert", <<readerIsNull, outIsNull>>,
         cardano_update_drep_cert_from_cbor(reader, heap, readerIsNull, outIsNull, FALSE))

StakeRegistrationNullFromCbor ==
  \E readerIsNull, outIsNull \in BOOLEAN :
    /\ readerIsNull \/ outIsNull
    /\ NullDecoderReturns("stake_registration_cert", <<readerIsNull, outIsNull>>,
         cardano_stake_registration_cert_from_cbor(reader, heap, readerIsNull, outIsNull,
                                                   FALSE))

\* cardano_script_n_of_k_get_length(NULL)
ScriptNOfKNullGetLength ==
  NullCallReturns("get_length", "script_n_of_k", <<scriptp["s"]>>,
    Outcome(CARDANO_SUCCESS, cardano_script_n_of_k_get_length(heap, scriptp["s"]),
            heap, <<>>, reader, <<>>))

InitNull ==
  /\ \E b \in BuiltCertificates :
       /\ heap = b.heap
       /\ certp = [q \in CertPtrs |-> IF q = "x" THEN b.val ELSE NULL]
       /\ reader = cardano_cbor_reader_new(CertEncoding(b.heap, b.val), "none")
  /\ childp = [k \in ChildPtrs |-> NULL]
  /\ scriptp = [k \in ScriptPtrs |-> NULL]
  /\ writer = NoWriter
  /\ last = NoLast

NextNull ==
  \/ UpdateDRepNullRefcount
  \/ StakeRegistrationNullRefcount
  \/ UpdateDRepNullRef
  \/ StakeRegistrationNullRef
  \/ UpdateDRepNullUnref
  \/ StakeRegistrationNullUnref
  \/ UpdateDRepNullGetCredential
  \/ UpdateDRepNullGetAnchor
  \/ StakeRegistrationNullGetCredential
  \/ UpdateDRepNullToCbor
  \/ StakeRegistrationNullToCbor
  \/ UpdateDRepNullFromCbor
  \/ StakeRegistrationNullFromCbor
  \/ ScriptNOfKNullGetLength

SpecNull == InitNull /\ [][NextNull]_vars

(***************************************************************************)
(* SpecShared: several holders on one object graph, one call at a time.    *)
(* Initially two update-DRep certificates exist, each with its own         *)
(* children; holder x has the first and holder y the second.  A holder     *)
(* that has a certificate may share it with the other holder (ref), give   *)
(* it up (unref), read its children into the child handles c and a (each   *)
(* getter hands out a reference) and store what c and a hold (setters).    *)
(* c and a are given up with the children's unref.  A holder that gives up *)
(* a reference forgets its pointer, whether or not unref nulled it.        *)
(***************************************************************************)
Other(q) == IF q = "x" THEN "y" ELSE "x"

\* what a call leaves behind: the heap h and the holders' pointers cp, kp
SharedCallReturns(op, kind, q, args, err, ret, h, cp, kp, mid) ==
  /\ heap' = h
  /\ certp' = cp
  /\ childp' = kp
  /\ last' = ObjectCall(op, kind, q, args, err, ret, mid)
  /\ UNCHANGED <<scriptp, reader, writer>>

\* cardano_update_drep_cert_ref(certp[q]); the new reference goes to the
\* other holder
SharedRef ==
  \E q \in CertPtrs :
    /\ certp[q] # NULL
    /\ certp[Other(q)] = NULL
    /\ SharedCallReturns("ref", "update_drep_cert", q, <<certp[q]>>, CARDANO_SUCCESS, NULL,
         cardano_update_drep_cert_ref(heap, certp[q]),
         [certp EXCEPT ![Other(q)] = certp[q]], childp, <<>>)

\* cardano_update_drep_cert_unref(&certp[q]): r is the heap and the
\* pointer as unref left it
SharedUnrefReturns(q, r) ==
  SharedCallReturns("unref", "update_drep_cert", q, <<certp[q]>>, CARDANO_SUCCESS, r.ptr,
                    r.heap, [certp EXCEPT ![q] = NULL], childp, <<>>)

SharedUnref ==
  \E q \in CertPtrs :
    /\ certp[q] # NULL
    /\ SharedUnrefReturns(q, cardano_update_drep_cert_unref(heap, certp[q]))

\* a getter on certp[q] into the free child handle k: r is the heap and
\* the pointer returned
SharedGetReturns(op, q, k, r) ==
  SharedCallReturns(op, "update_drep_cert", q, <<certp[q]>>, CARDANO_SUCCESS, r.val,
                    r.heap, certp, [childp EXCEPT ![k] = r.val], <<>>)

SharedGetCredential ==
  \E q \in CertPtrs :
    /\ certp[q] # NULL
    /\ childp["c"] = NULL
    /\ SharedGetReturns("get_credential", q, "c",
                        cardano_update_drep_cert_get_credential(heap, certp[q]))

SharedGetAnchor ==
  \E q \in CertPtrs :
    /\ certp[q] # NULL
    /\ childp["a"] = NULL
    /\ SharedGetReturns("get_anchor", q, "a",
                        cardano_update_drep_cert_get_anchor(heap, certp[q]))

\* a setter on certp[q] with what the child handle holds: r is what the
\* setter returned
SharedSetReturns(op, q, value, r) ==
  SharedCallReturns(op, "update_drep_cert", q, <<certp[q], value>>, r.err, NULL,
                    r.heap, certp, childp, r.mid)

SharedSetCredential ==
  \E q \in CertPtrs :
    /\ certp[q] # NULL
    /\ SharedSetReturns("set_credential", q, childp["c"],
         cardano_update_drep_cert_set_credential(heap, certp[q], childp["c"]))

SharedSetAnchor ==
  \E q \in CertPtrs :
    /\ certp[q] # NULL
    /\ SharedSetReturns("set_anchor", q, childp["a"],
         cardano_update_drep_cert_set_anchor(heap, certp[q], childp["a"]))

\* cardano_credential_unref(&c) / cardano_anchor_unref(&a): h is the heap
\* after it
SharedChildUnrefReturns(k, h) ==
  SharedCallReturns("child_unref", ChildKind(k), k, <<childp[k]>>, CARDANO_SUCCESS, NULL,
                    h, certp, [childp EXCEPT ![k] = NULL], <<>>)

SharedCredentialUnref ==
  /\ childp["c"] # NULL
  /\ SharedChildUnrefReturns("c", cardano_credential_unref(heap, childp["c"]))

SharedAnchorUnref ==
  /\ childp["a"] # NULL
  /\ SharedChildUnrefReturns("a", cardano_anchor_unref(heap, childp["a"]))

\* the second certificate, built on the heap of the first
SharedPairs ==
  {<<b, BuiltUpdateDRepOn(cardano_credential_new(b.heap, cv), wa, av)>> :
     b \in {BuiltUpdateDRep(cv1, wa1, av1) :
              cv1 \in LifecycleCredentials, wa1 \in BOOLEAN, av1 \in LifecycleAnchors},
     cv \in LifecycleCredentials, wa \in BOOLEAN, av \in LifecycleAnchors}

InitShared ==
  /\ \E pr \in SharedPairs :
       /\ heap = pr[2].heap
       /\ certp = [q \in CertPtrs |-> IF q = "x" THEN pr[1].val ELSE pr[2].val]
  /\ childp = [k \in ChildPtrs |-> NULL]
  /\ scriptp = [k \in ScriptPtrs |-> NULL]
  /\ reader = NoReader
  /\ writer = NoWriter
  /\ last = NoLast

NextShared ==
  \/ SharedRef
  \/ SharedUnref
  \/ SharedGetCredential
  \/ SharedGetAnchor
  \/ SharedSetCredential
  \/ SharedSetAnchor
  \/ SharedCredentialUnref
  \/ SharedAnchorUnref

SpecShared == InitShared /\ [][NextShared]_vars


(***************************************************************************)
(* Reading a token sequence as items, and the trace of a call.             *)
(***************************************************************************)
\* the index that follows n complete items starting at index i; beyond
\* Len(toks) + 1 when the sequence ends before the items do
RECURSIVE SkipItems(_, _, _)
SkipItems(toks, i, n) ==
  IF n = 0 THEN i
  ELSE IF i > Len(toks) THEN Len(toks) + 2
  ELSE IF toks[i].k = "arr" THEN SkipItems(toks, i + 1, toks[i].v + n - 1)
  ELSE SkipItems(toks, i + 1, n - 1)

\* the tokens of the k-th element of the array that toks encodes
Element(toks, k) ==
  LET from == SkipItems(toks, 2, k - 1)
      to   == SkipItems(toks, 2, k) - 1
  IN  IF to <= Len(toks) THEN SubSeq(toks, from, to) ELSE <<>>

IsArray(toks) == Len(toks) >= 1 /\ toks[1].k = "arr"

Did(site) == \E i \in 1..Len(last.trace) : last.trace[i].step = site
DidOk(site) == \E i \in 1..Len(last.trace) : last.trace[i] = Ev(site, CARDANO_SUCCESS)
Steps == [i \in 1..Len(last.trace) |-> last.trace[i].step]

Arity(kind) ==
  IF kind = "update_drep_cert" THEN UPDATE_DREP_EMBEDDED_GROUP_SIZE
  ELSE STAKE_REGISTRATION_EMBEDDED_GROUP_SIZE

Discriminant(kind) ==
  IF kind = "update_drep_cert" THEN CARDANO_CERT_TYPE_UPDATE_DREP
  ELSE CARDANO_CERT_TYPE_STAKE_REGISTRATION

Decoded == last.op = "from_cbor"
Encoded == last.op = "to_cbor"

(***************************************************************************)
(* Properties.                                                             *)
(***************************************************************************)

\* C1: decoding what to_cbor wrote for a certificate x, with the decoder of
\* x's type and no collaborator failing, succeeds and yields a certificate
\* with x's credential and x's anchor (absent exactly when x's is absent).
C1_RoundTrip ==
  (/\ Decoded
   /\ last.rd.fault = "none"
   /\ writer.err = CARDANO_SUCCESS
   /\ last.rd.toks = writer.toks
   /\ writer.of.kind = last.kind)
  => /\ last.err = CARDANO_SUCCESS
     /\ Live(heap, certp[last.ptr])
     /\ CertValue(heap, certp[last.ptr]) = writer.of

C1_Witness ==
  /\ Decoded
  /\ last.rd.fault = "none"
  /\ writer.err = CARDANO_SUCCESS
  /\ last.rd.toks = writer.toks
  /\ writer.of.kind = last.kind
  /\ last.kind = "update_drep_cert"
  /\ writer.of.has
  /\ last.err = CARDANO_SUCCESS

\* an update-DRep encoding whose third element is null
NullAnchorEncodings ==
  {<<Tok("arr", UPDATE_DREP_EMBEDDED_GROUP_SIZE), Tok("uint", CARDANO_CERT_TYPE_UPDATE_DREP)>>
     \o CredentialEncoding(v) \o <<Tok("null", 0)>> : v \in CredentialValues}

\* the to_cbor call directly follows a successful from_cbor that put the
\* encoded certificate into the same pointer after peeking a null
EncodedAfterDecodingNull ==
  /\ Encoded
  /\ last.before.op = "from_cbor"
  /\ last.before.kind = "update_drep_cert"
  /\ last.before.ptr = last.ptr
  /\ last.before.err = CARDANO_SUCCESS
  /\ last.before.peeked = "NULL"

\* C2: an update-DRep certificate whose third element is null decodes with
\* the anchor absent (get_anchor returns NULL), and to_cbor of the decoded
\* certificate writes a null as the third element, not an anchor.
C2_NullAnchor ==
  /\ (/\ Decoded
      /\ last.kind = "update_drep_cert"
      /\ last.rd.fault = "none"
      /\ last.rd.toks \in NullAnchorEncodings)
     => /\ last.err = CARDANO_SUCCESS
        /\ Live(heap, certp[last.ptr])
        /\ heap[certp[last.ptr]].anchor = NULL
        /\ cardano_update_drep_cert_get_anchor(heap, certp[last.ptr]).val = NULL
  /\ (EncodedAfterDecodingNull /\ last.err = CARDANO_SUCCESS)
     => /\ Element(writer.toks, 3) = <<Tok("null", 0)>>
        /\ ~ Did("w_anchor")

C2_Witness ==
  /\ EncodedAfterDecodingNull
  /\ last.err = CARDANO_SUCCESS
  /\ last.ptr = "y"
  /\ writer.toks \in NullAnchorEncodings

\* what a successful to_cbor of the certificate at p has to write
ExpectedEncoding(h, p) ==
  LET v == CertValue(h, p) IN
  IF v.kind = "update_drep_cert"
    THEN <<Tok("arr", 3), Tok("uint", CARDANO_CERT_TYPE_UPDATE_DREP)>>
         \o <<Tok("arr", 2), Tok("uint", v.c1), Tok("bytes", v.c2)>>
         \o (IF v.has THEN <<Tok("arr", 2), Tok("text", v.a1), Tok("bytes", v.a2)>>
                      ELSE <<Tok("null", 0)>>)
    ELSE <<Tok("arr", 2), Tok("uint", CARDANO_CERT_TYPE_STAKE_REGISTRATION)>>
         \o <<Tok("arr", 2), Tok("uint", v.c1), Tok("bytes", v.c2)>>

\* C3: a successful to_cbor writes start_array(3) and exactly three
\* elements (UPDATE_DREP, credential, anchor or null) for an update-DRep
\* certificate, start_array(2) and exactly two (STAKE_REGISTRATION,
\* credential) for a stake registration; no slot is omitted.
C3_EncodeShape ==
  (Encoded /\ last.err = CARDANO_SUCCESS)
  => LET n == Arity(last.kind) IN
     /\ writer.toks[1] = Tok("arr", n)
     /\ SkipItems(writer.toks, 2, n) = Len(writer.toks) + 1
     /\ \A k \in 1..n : Element(writer.toks, k) # <<>>
     /\ writer.toks = ExpectedEncoding(heap, certp[last.ptr])

C3_Witness ==
  /\ Encoded
  /\ last.err = CARDANO_SUCCESS
  /\ last.kind = "update_drep_cert"
  /\ heap[certp[last.ptr]].anchor = NULL
  /\ Len(writer.toks) = 6

\* the array handed to the decoder has a length other than the type's,
\* and the reader does not fail on its own while opening it
WrongArity ==
  /\ Decoded
  /\ IsArray(reader.toks)
  /\ reader.toks[1].v # Arity(last.kind)
  /\ reader.fault # "arity"

\* C4: from_cbor on an array whose length differs from the type's arity
\* (3 for update-DRep, 2 for stake registration) returns the array-arity
\* error before any element is read, constructs no certificate and does
\* not write the output pointer.
C4_ArityRejection ==
  WrongArity
  => /\ last.err = SCHEMA_ARRAY_ARITY
     /\ last.trace = <<Ev("arity", SCHEMA_ARRAY_ARITY)>>
     /\ last.rd.pos = 2
     /\ ~ last.wrote
     /\ certp[last.ptr] = NULL
     /\ heap = EmptyHeap

C4_Witness ==
  /\ WrongArity
  /\ last.kind = "update_drep_cert"
  /\ reader.toks[1].v = STAKE_REGISTRATION_EMBEDDED_GROUP_SIZE
  /\ last.err = SCHEMA_ARRAY_ARITY

\* the array has the type's length and starts with an unsigned integer
\* that is not the type's discriminant; the reader does not fail on its own
WrongDiscriminant ==
  /\ Decoded
  /\ IsArray(reader.toks)
  /\ reader.toks[1].v = Arity(last.kind)
  /\ Len(reader.toks) >= 2
  /\ reader.toks[2].k = "uint"
  /\ reader.toks[2].v # Discriminant(last.kind)
  /\ reader.fault \notin {"arity", "disc"}

\* C5: from_cbor on an array of the right length whose first element is a
\* discriminant other than the expected one returns the discriminant
\* error; no credential or anchor decoder runs, no certificate is built.
C5_DiscriminantRejection ==
  WrongDiscriminant
  => /\ last.err = SCHEMA_DISCRIMINANT
     /\ last.trace = <<Ev("arity", CARDANO_SUCCESS), Ev("disc", SCHEMA_DISCRIMINANT)>>
     /\ ~ Did("cred") /\ ~ Did("anchor") /\ ~ Did("new")
     /\ ~ last.wrote
     /\ certp[last.ptr] = NULL
     /\ heap = EmptyHeap

C5_Witness ==
  /\ WrongDiscriminant
  /\ last.kind = "stake_registration_cert"
  /\ reader.toks[2].v = CARDANO_CERT_TYPE_UPDATE_DREP
  /\ last.err = SCHEMA_DISCRIMINANT

\* the stake-registration decoder was given [STAKE_REGISTRATION,
\* credential, extra], with no failure of the reader's own
TrailingElement ==
  /\ Decoded
  /\ last.kind = "stake_registration_cert"
  /\ reader.fault = "none"
  /\ \E v \in CredentialValues, extra \in Items :
       reader.toks = ArrayOf(<<<<Tok("uint", CARDANO_CERT_TYPE_STAKE_REGISTRATION)>>,
                               CredentialEncoding(v), extra>>)

\* C6 as stated: decoding [STAKE_REGISTRATION, credential, extra] fails
\* with the end-of-array violation, reported by the end-of-array check.
C6_TrailingFailsAtEndCheck ==
  TrailingElement
  => /\ last.err = SCHEMA_END_OF_ARRAY
     /\ last.trace # <<>>
     /\ last.trace[Len(last.trace)].step = "end"

\* C6 amended: decoding [STAKE_REGISTRATION, credential, extra] fails with
\* the array-arity error, reported by the arity check before any element
\* is read; the end-of-array check is not reached.
C6_TrailingFailsAtArityCheck ==
  TrailingElement
  => /\ last.err = SCHEMA_ARRAY_ARITY
     /\ last.trace = <<Ev("arity", SCHEMA_ARRAY_ARITY)>>
     /\ ~ Did("end")
     /\ certp[last.ptr] = NULL

C6_Witness ==
  /\ TrailingElement
  /\ last.err = SCHEMA_ARRAY_ARITY

Rank(site) ==
  CASE site = "arity"  -> 1
    [] site = "disc"   -> 2
    [] site = "cred"   -> 3
    [] site = "peek"   -> 4
    [] site = "null"   -> 5
    [] site = "anchor" -> 5
    [] site = "new"    -> 6
    [] site = "end"    -> 7
    [] OTHER           -> 0

\* C7: in every from_cbor the calls occur in the order arity, discriminant,
\* credential, anchor or null, end-of-array, and a later call is made only
\* if every earlier one succeeded.
C7_ValidationOrder ==
  Decoded
  => \A i, j \in 1..Len(last.trace) :
       i < j => /\ Rank(last.trace[i].step) < Rank(last.trace[j].step)
                /\ last.trace[i].err = CARDANO_SUCCESS

\* C8: in from_cbor and to_cbor the first failing call ends the operation,
\* which returns that call's error and makes no further call.
C8_FailFast ==
  (Decoded \/ Encoded)
  => \A i \in 1..Len(last.trace) :
       last.trace[i].err # CARDANO_SUCCESS
       => /\ i = Len(last.trace)
          /\ last.err = last.trace[i].err

\* C9: when from_cbor fails, at whichever step, no certificate created by
\* the call remains allocated or reaches the output pointer, and every
\* child decoded by the call is deallocated.
C9_FullUnwinding ==
  (Decoded /\ last.err # CARDANO_SUCCESS)
  => /\ ~ last.wrote
     /\ certp[last.ptr] = NULL
     /\ heap = EmptyHeap

\* where the anchor slot starts in the input
AnchorSlot == SkipItems(reader.toks, 2, 2)

\* C10: in update-DRep from_cbor, once the credential is decoded the next
\* value's kind is peeked before anything of the anchor slot is consumed;
\* a peeked null leads to read_null and never to the anchor decoder, any
\* other kind to the anchor decoder and never to read_null; the one that
\* is called, when it succeeds, consumes exactly the slot.
C10_PeekBeforeConsume ==
  (Decoded /\ last.kind = "update_drep_cert" /\ DidOk("cred"))
  => /\ Len(last.trace) >= 4
     /\ last.trace[4].step = "peek"
     /\ last.trace[4].err # CARDANO_SUCCESS
          => /\ Len(last.trace) = 4
             /\ last.rd.pos = AnchorSlot
     /\ last.trace[4].err = CARDANO_SUCCESS
          => /\ Len(last.trace) >= 5
             /\ last.peeked = cardano_cbor_reader_peek_state(
                                [last.rd EXCEPT !.pos = AnchorSlot, !.stack = <<1>>]).state
             /\ last.trace[5].step = (IF last.peeked = "NULL" THEN "null" ELSE "anchor")
             /\ Cardinality({i \in 1..Len(last.trace) :
                               last.trace[i].step \in {"null", "anchor"}}) = 1
             /\ last.trace[5].err = CARDANO_SUCCESS
                  => last.rd.pos = SkipItems(reader.toks, AnchorSlot, 1)

C10_Witness ==
  /\ Decoded
  /\ last.kind = "update_drep_cert"
  /\ last.peeked = "NULL"
  /\ DidOk("null")
  /\ ~ Did("anchor")
  /\ last.err = CARDANO_SUCCESS

(***************************************************************************)
(* Calls on objects: what the latest call found and what it left.          *)
(***************************************************************************)
Pre == last.pre

\* the certificate the latest call was made on (NULL for a null pointer)
Target == Pre.certp[last.ptr]

Called(op) == last.op = op
Succeeded == last.err = CARDANO_SUCCESS

\* object p is as the call found it but for its count, which changed by d
CountChangedBy(p, d) == heap[p] = [Pre.heap[p] EXCEPT !.ref_count = @ + d]

\* every object but those of set S is as the call found it
OthersUnchanged(S) == \A i \in Ids \ S : heap[i] = Pre.heap[i]

\* C11: a certificate constructor given a null credential or a null output
\* pointer returns the null-argument error, allocates nothing, changes no
\* reference count and stores nothing through the output pointer; the
\* update-DRep constructor given a credential, a null anchor and an output
\* pointer, with memory available, succeeds with a certificate that holds
\* that credential and no anchor.
C11_ConstructorArguments ==
  Called("new") =>
    /\ (last.args[1] = NULL \/ last.args[3]) =>
         /\ last.err = CARDANO_ERROR_POINTER_IS_NULL
         /\ heap = Pre.heap
         /\ certp = Pre.certp
    /\ ( /\ last.kind = "update_drep_cert"
         /\ last.args[1] # NULL
         /\ last.args[2] = NULL
         /\ ~last.args[3]
         /\ ~last.args[4] ) =>
         /\ Succeeded
         /\ certp[last.ptr] # NULL
         /\ heap[certp[last.ptr]].kind = "update_drep_cert"
         /\ heap[certp[last.ptr]].credential = last.args[1]
         /\ heap[certp[last.ptr]].anchor = NULL

\* the update-DRep constructor was given a null credential and a live anchor
C11_Witness ==
  /\ Called("new")
  /\ last.kind = "update_drep_cert"
  /\ last.args[1] = NULL
  /\ last.args[2] # NULL
  /\ ~last.args[3]
  /\ last.err = CARDANO_ERROR_POINTER_IS_NULL

\* C12: a successful certificate constructor raises the count of each
\* non-null child it was given by exactly 1, changes nothing else of the
\* child nor any other object that existed, and leaves the caller's
\* pointers and the caller's own references as they were; when the caller
\* then releases a reference to a child that a certificate holds, the child
\* stays alive, with its count down by 1, and the certificate still holds it.
C12_ConstructorShares ==
  /\ (Called("new") /\ Succeeded) =>
       /\ \A c \in {last.args[1], last.args[2]} \ {NULL} :
            /\ CountChangedBy(c, 1)
            /\ CallerRefs(heap, c) = CallerRefs(Pre.heap, c)
            /\ certp[last.ptr] \in Holders(heap, c)
       /\ OthersUnchanged({last.args[1], last.args[2], certp[last.ptr]})
       /\ childp = Pre.childp
  /\ (Called("child_unref") /\ Holders(Pre.heap, last.args[1]) # {}) =>
       /\ CountChangedBy(last.args[1], -1)
       /\ Holders(heap, last.args[1]) = Holders(Pre.heap, last.args[1])
       /\ heap[last.args[1]].ref_count >= 1

\* the update-DRep constructor succeeded on a credential and an anchor
C12_Witness ==
  /\ Called("new")
  /\ Succeeded
  /\ last.kind = "update_drep_cert"
  /\ last.args[1] # NULL
  /\ last.args[2] # NULL
  /\ Pre.childp["c"] = last.args[1]
  /\ CallerRefs(heap, last.args[1]) = 1

\* C13: set_credential and set_anchor given a null certificate or a null
\* value return the null-argument error and leave every object, and so the
\* certificate's fields and every count, as they were.
C13_SetterNullRejection ==
  ((Called("set_credential") \/ Called("set_anchor"))
     /\ (last.args[1] = NULL \/ last.args[2] = NULL)) =>
    /\ last.err = CARDANO_ERROR_POINTER_IS_NULL
    /\ heap = Pre.heap
    /\ certp = Pre.certp
    /\ childp = Pre.childp

\* set_anchor was given null for a certificate that has an anchor
C13_Witness ==
  /\ Called("set_anchor")
  /\ last.args[1] # NULL
  /\ last.args[2] = NULL
  /\ Pre.heap[last.args[1]].anchor # NULL
  /\ last.err = CARDANO_ERROR_POINTER_IS_NULL

SetterCalled == Called("set_credential") \/ Called("set_anchor")

\* what the field a setter is about held when the setter was called
OldValue ==
  IF Called("set_credential") THEN Pre.heap[Target].credential ELSE Pre.heap[Target].anchor

\* heap h with that field of the target set to v
Assigned(h, v) ==
  IF Called("set_credential") THEN [h EXCEPT ![Target].credential = v]
  ELSE [h EXCEPT ![Target].anchor = v]

\* C14: every live certificate has a credential, which is a live credential
\* object; an update-DRep certificate that has an anchor before a call and
\* is alive after it has an anchor after it; and an update-DRep certificate
\* comes to exist without an anchor only by the constructor given a null
\* anchor or by decoding a null anchor slot.
C14_NoNullness ==
  /\ \A i \in Ids :
       heap[i].kind \in CertKinds =>
         /\ heap[i].credential # NULL
         /\ heap[heap[i].credential].kind = "credential"
  /\ \A i \in Ids :
       ( /\ Pre.heap[i].kind = "update_drep_cert"
         /\ Pre.heap[i].anchor # NULL
         /\ heap[i].kind = "update_drep_cert" ) =>
         /\ heap[i].anchor # NULL
         /\ heap[heap[i].anchor].kind = "anchor"
  /\ \A i \in Ids :
       ( /\ Pre.heap[i].kind = "free"
         /\ heap[i].kind = "update_drep_cert"
         /\ heap[i].anchor = NULL ) =>
         \/ Called("new") /\ last.args[2] = NULL
         \/ Called("from_cbor") /\ last.peeked = "NULL"

\* set_anchor replaced the anchor of a certificate by another anchor
C14_Witness ==
  /\ Called("set_anchor")
  /\ Succeeded
  /\ OldValue # NULL
  /\ last.args[2] # OldValue
  /\ heap[Target].anchor = last.args[2]

\* C15: a successful setter takes a reference to the new value, then
\* releases the old one, then assigns; so when it is given the very object
\* the certificate holds, and the certificate holds the only reference to
\* it, the object is alive with a count of at least 1 at every point of the
\* call, and the call leaves it, and everything else, as it was.
C15_SelfAssignment ==
  (SetterCalled /\ Succeeded) =>
    /\ Len(last.mid) = 2
    /\ last.mid[1] = cardano_object_ref(Pre.heap, last.args[2])
    /\ last.mid[2] = LeafUnref(last.mid[1], OldValue)
    /\ heap = Assigned(last.mid[2], last.args[2])
    /\ (last.args[2] = OldValue /\ Pre.heap[OldValue].ref_count = 1) =>
         /\ \A k \in 1..Len(last.mid) :
              /\ last.mid[k][OldValue].kind = Pre.heap[OldValue].kind
              /\ last.mid[k][OldValue].ref_count >= 1
         /\ heap = Pre.heap

\* set_credential was given the credential the certificate holds, to which
\* the certificate has the only reference
C15_Witness ==
  /\ Called("set_credential")
  /\ Succeeded
  /\ last.args[2] = OldValue
  /\ Pre.heap[OldValue].ref_count = 1
  /\ heap[OldValue].ref_count = 1
  /\ heap[Target].credential = OldValue

\* C16: a certificate that new or from_cbor has just produced has count 1;
\* ref raises the certificate's count by exactly 1; unref of a certificate
\* whose count is above 1 lowers it by exactly 1; getters, setters, to_cbor
\* and refcount leave the certificate's count as it was, and refcount
\* returns it.
C16_RefcountArithmetic ==
  /\ ((Called("new") \/ Called("from_cbor")) /\ Succeeded) =>
       /\ certp[last.ptr] # NULL
       /\ Pre.heap[certp[last.ptr]].kind = "free"
       /\ heap[certp[last.ptr]].kind = last.kind
       /\ heap[certp[last.ptr]].ref_count = 1
  /\ Called("ref") =>
       heap[Target].ref_count = Pre.heap[Target].ref_count + 1
  /\ (Called("unref") /\ Pre.heap[Target].ref_count > 1) =>
       heap[Target].ref_count = Pre.heap[Target].ref_count - 1
  /\ ((SetterCalled \/ Called("get_credential") \/ Called("get_anchor")
         \/ Called("to_cbor") \/ Called("refcount")) /\ Target # NULL) =>
       heap[Target].ref_count = Pre.heap[Target].ref_count
  /\ Called("refcount") =>
       last.ret = IF Target = NULL THEN 0 ELSE heap[Target].ref_count

\* ref was called on a certificate whose count was 1
C16_Witness ==
  /\ Called("ref")
  /\ Pre.heap[Target].ref_count = 1
  /\ heap[Target].ref_count = 2

\* the latest call was the unref that released the last reference to its
\* certificate
LastRelease == Called("unref") /\ Target # NULL /\ Pre.heap[Target].ref_count = 1

\* C17: an object is deallocated only when its count is 1 and is being
\* released, a certificate only by the unref called on it; that unref does
\* deallocate it, and leaves the caller no pointer to it, so that it is
\* never deallocated again; and no live object has a count of 0.
C17_DestructorTiming ==
  /\ \A i \in Ids :
       (Pre.heap[i].kind \in CertKinds /\ heap[i].kind = "free") =>
         /\ Called("unref")
         /\ Target = i
         /\ Pre.heap[i].ref_count = 1
  /\ \A i \in Ids :
       (Pre.heap[i].kind # "free" /\ heap[i].kind = "free") =>
         Pre.heap[i].ref_count = 1
  /\ LastRelease =>
       /\ heap[Target].kind = "free"
       /\ \A q \in CertPtrs : certp[q] # Target
  /\ (Called("unref") /\ Target # NULL /\ Pre.heap[Target].ref_count > 1) =>
       heap[Target].kind = Pre.heap[Target].kind
  /\ \A i \in Ids : heap[i].kind # "free" => heap[i].ref_count >= 1

\* a stake-registration certificate was deallocated by the last unref
C17_Witness ==
  /\ LastRelease
  /\ last.kind = "stake_registration_cert"
  /\ heap[Target].kind = "free"

\* C18: certificate unref nulls the caller's pointer exactly when it
\* released the last reference, and the certificate is then deallocated;
\* otherwise it leaves the caller's pointer as it was.
C18_PointerNulling ==
  (Called("unref") /\ Target # NULL) =>
    /\ certp[last.ptr] = NULL <=> Pre.heap[Target].ref_count = 1
    /\ certp[last.ptr] = NULL => heap[Target].kind = "free"
    /\ certp[last.ptr] # NULL => certp[last.ptr] = Target
    /\ \A q \in CertPtrs \ {last.ptr} : certp[q] = Pre.certp[q]

\* unref was called on an update-DRep certificate whose count was 2
C18_Witness ==
  /\ Called("unref")
  /\ last.kind = "update_drep_cert"
  /\ Pre.heap[Target].ref_count = 2
  /\ certp[last.ptr] = Target

\* the children a certificate held when the latest call was made
ChildrenOfTarget == {Pre.heap[Target].credential, Pre.heap[Target].anchor} \ {NULL}

\* C19: the unref that deallocates a certificate releases its credential
\* and, if it has one, its anchor, once each: a child with other references
\* stays, its count down by 1, a child without is deallocated, and no
\* other object is touched.
C19_ChildrenReleased ==
  LastRelease =>
    /\ \A c \in ChildrenOfTarget :
         IF Pre.heap[c].ref_count > 1
           THEN CountChangedBy(c, -1)
           ELSE heap[c] = FreeObj
    /\ OthersUnchanged(ChildrenOfTarget \cup {Target})

\* a certificate was deallocated whose credential the caller also holds
\* and whose anchor it alone held
C19_Witness ==
  /\ LastRelease
  /\ last.kind = "update_drep_cert"
  /\ Pre.heap[Target].anchor # NULL
  /\ Pre.heap[Pre.heap[Target].credential].ref_count = 2
  /\ Pre.heap[Pre.heap[Target].anchor].ref_count = 1
  /\ heap[Pre.heap[Target].credential].ref_count = 1
  /\ heap[Pre.heap[Target].anchor].kind = "free"

\* what the field a getter is about held when the getter was called
Held ==
  IF Called("get_credential") THEN Pre.heap[Target].credential ELSE Pre.heap[Target].anchor

\* C20: get_credential and get_anchor on a live certificate return the
\* child the certificate holds and raise that child's count by exactly 1,
\* changing nothing else; get_anchor on a certificate without anchor
\* returns null and changes nothing; get_scripts on a live n-of-k script
\* with an output pointer succeeds, hands out the list the script holds and
\* raises the list's count by exactly 1, changing nothing else.
C20_GettersShare ==
  /\ ((Called("get_credential") \/ Called("get_anchor")) /\ Target # NULL) =>
       /\ last.ret = Held
       /\ certp = Pre.certp
       /\ IF Held = NULL
            THEN heap = Pre.heap
            ELSE CountChangedBy(Held, 1) /\ OthersUnchanged({Held})
  /\ Called("get_credential") => (Target # NULL => last.ret # NULL)
  /\ (Called("get_scripts") /\ last.args[1] # NULL /\ ~last.args[2]) =>
       /\ Succeeded
       /\ last.ret = Pre.heap[last.args[1]].scripts
       /\ last.ret # NULL
       /\ scriptp = [Pre.scriptp EXCEPT !["l"] = last.ret]
       /\ CountChangedBy(last.ret, 1)
       /\ OthersUnchanged({last.ret})

\* get_anchor returned the anchor of a certificate, which the certificate
\* alone had held
C20_Witness ==
  /\ Called("get_anchor")
  /\ Target # NULL
  /\ last.ret # NULL
  /\ Pre.heap[last.ret].ref_count = 1
  /\ heap[last.ret].ref_count = 2
  /\ heap[Target].anchor = last.ret

(***************************************************************************)
(* Encoding leaves the objects alone.                                      *)
(***************************************************************************)
\* C21: to_cbor, whether it succeeds or fails at any step of the writer,
\* leaves every object as it found it -- the fields of the certificate,
\* its reference count and the counts and fields of its credential and
\* anchor -- and every pointer of the caller; only the writer changes.
C21_EncodeDoesNotMutate ==
  Encoded =>
    /\ heap = Pre.heap
    /\ certp = Pre.certp
    /\ childp = Pre.childp
    /\ scriptp = Pre.scriptp

\* an encoder of a certificate with an anchor failed after it had written
\* the credential
C21_Witness ==
  /\ Encoded
  /\ last.err # CARDANO_SUCCESS
  /\ Len(writer.toks) > CREDENTIAL_GROUP_SIZE
  /\ heap[certp[last.ptr]].anchor # NULL
  /\ heap[certp[last.ptr]].ref_count = 1

(***************************************************************************)
(* Native scripts: the codec.                                              *)
(***************************************************************************)
ScriptKinds == ScriptLeafKinds \cup ScriptListKinds

\* the latest call decoded a native script; from what was written, intact
ScriptDecoded == last.op = "from_cbor" /\ last.kind \in ScriptKinds
ScriptDecodedIntact == ScriptDecoded /\ last.rd.toks = last.mid

\* the value that was encoded into the input of the latest decoder call
Original == last.args[1]

\* the depth of nesting of a script value
RECURSIVE ScriptDepth(_)
RECURSIVE ScriptDepthOf(_)
ScriptDepthOf(cs) ==
  IF cs = <<>> THEN 0
  ELSE IF ScriptDepth(Head(cs)) > ScriptDepthOf(Tail(cs))
         THEN ScriptDepth(Head(cs)) ELSE ScriptDepthOf(Tail(cs))
ScriptDepth(v) == IF v.kind \in ScriptLeafKinds THEN 0 ELSE 1 + ScriptDepthOf(v.children)

\* C22: for every native script built from PubKey, InvalidBefore,
\* InvalidAfter, All, Any and AtLeast within the bounds, with lists of no,
\* one and several sub-scripts, decoding what its encoder wrote succeeds
\* and yields a script of the same value: the same variants, the same
\* required counts and the same sub-scripts in the same order.
C22_ScriptRoundTrip ==
  ScriptDecodedIntact =>
    /\ Succeeded
    /\ scriptp["t"] # NULL
    /\ NativeScriptValue(heap, scriptp["t"]) = Original

\* a script that holds a leaf and, after it, a script with a list of its
\* own was encoded, decoded and came back the same
C22_Witness ==
  /\ ScriptDecodedIntact
  /\ Succeeded
  /\ ScriptDepth(Original) = 2
  /\ Len(Original.children) > 1
  /\ Original.children[1].kind \in ScriptLeafKinds
  /\ NativeScriptValue(heap, scriptp["t"]) = Original

(***************************************************************************)
(* Native scripts: the n-of-k script as an object.                         *)
(***************************************************************************)
\* the two scripts of the latest cardano_script_n_of_k_equals call
Lhs == NativeScriptValue(heap, last.args[1])
Rhs == NativeScriptValue(heap, last.args[2])

NOfKDecodedIntact == ScriptDecodedIntact /\ Original.kind = "script_n_of_k"

\* C24: decoding the encoding of an n-of-k script with required count r
\* and sub-scripts c1..cn yields a script whose list holds the values
\* c1..cn in that order, for which the next get_required returns r and the
\* next get_length returns n (the scenario of the specification: r = 2,
\* n = 3).
C24_DecodePreservesCountAndOrder ==
  /\ [](NOfKDecodedIntact =>
          /\ scriptp["t"] # NULL
          /\ NativeScriptValue(heap, scriptp["t"]).children = Original.children)
  /\ [][(NOfKDecodedIntact /\ last'.ptr = "t" /\ last'.op = "get_required")
          => last'.ret = Original.v]_vars
  /\ [][(NOfKDecodedIntact /\ last'.ptr = "t" /\ last'.op = "get_length")
          => last'.ret = Len(Original.children)]_vars

\* get_required returned 2 for a decoded script with three sub-scripts, no
\* two of them equal
C24_Witness ==
  /\ Called("get_required")
  /\ last.ptr = "t"
  /\ last.ret = 2
  /\ cardano_script_n_of_k_get_length(heap, scriptp["t"]) = 3
  /\ Cardinality({NativeScriptValue(heap, scriptp["t"]).children[i] : i \in 1..3}) = 3

\* the required count in the encoding toks of an n-of-k script: the item
\* after the discriminant
RequiredWritten(toks) == toks[ScriptArity("script_n_of_k")].v
IsNOfKEncoding(toks) ==
  /\ Len(toks) >= ScriptArity("script_n_of_k")
  /\ toks[2] = Tok("uint", ScriptTag("script_n_of_k"))

\* C25: cardano_script_n_of_k_new, set_required and from_cbor accept every
\* required count, 0 and counts greater than the number of sub-scripts
\* included, and store it as given: get_required returns, and to_cbor
\* writes, the count supplied, never one cut down to the length of the
\* list.
C25_RequiredIsNotClamped ==
  /\ []((Called("new") /\ last.kind = "script_n_of_k") =>
          /\ Succeeded
          /\ cardano_script_n_of_k_get_required(heap, last.ret) = last.args[1].v)
  /\ [](Called("set_required") =>
          /\ Succeeded
          /\ cardano_script_n_of_k_get_required(heap, last.args[1]) = last.args[2]
          /\ heap = [Pre.heap EXCEPT ![last.args[1]].f1 = last.args[2]])
  /\ []((ScriptDecoded /\ IsNOfKEncoding(last.rd.toks) /\ Succeeded) =>
          cardano_script_n_of_k_get_required(heap, last.ret) = RequiredWritten(last.rd.toks))
  /\ []((ScriptDecoded /\ last.rd.toks = [last.mid EXCEPT ![ScriptArity("script_n_of_k")] =
                                            Tok("uint", MaxRequired + 1)]
            /\ IsNOfKEncoding(last.mid)) => Succeeded)
  /\ [][((Called("set_required") \/ (Called("new") /\ last.kind = "script_n_of_k"))
           /\ last'.op = "get_required" /\ last'.ptr = last.ptr)
          => last'.ret = IF Called("new") THEN last.args[1].v ELSE last.args[2]]_vars
  /\ [][((Called("set_required") \/ (Called("new") /\ last.kind = "script_n_of_k"))
           /\ last'.op = "to_cbor" /\ last'.ptr = last.ptr /\ last'.err = CARDANO_SUCCESS)
          => RequiredWritten(writer'.toks)
               = IF Called("new") THEN last.args[1].v ELSE last.args[2]]_vars

\* set_required stored a count greater than the number of sub-scripts of a
\* script that has sub-scripts
C25_Witness ==
  /\ Called("set_required")
  /\ Succeeded
  /\ cardano_script_n_of_k_get_length(heap, last.args[1]) > 0
  /\ last.args[2] > cardano_script_n_of_k_get_length(heap, last.args[1])
  /\ cardano_script_n_of_k_get_required(heap, last.args[1]) = last.args[2]

\* the sub-scripts the latest decoder call finished decoding, in order,
\* each with its outcome and the depth of the list it belongs to; those
\* that failed; the first of them
ChildTrace == last.trace
FailedChildren == {i \in 1..Len(ChildTrace) : ChildTrace[i].err # CARDANO_SUCCESS}
FirstFailed == CHOOSE i \in FailedChildren : \A j \in FailedChildren : i <= j

\* C26: when the decode of a sub-script of an All, Any or n-of-k script
\* fails, the sub-scripts decoded before it have all been released, no
\* script is constructed or returned, no later sub-script is decoded, and
\* the error returned is the error of the first sub-script that failed.
C26_ScriptDecodeAllOrNothing ==
  (ScriptDecoded /\ FailedChildren # {}) =>
    /\ last.err = ChildTrace[FirstFailed].err
    /\ last.ret = NULL
    /\ scriptp = Pre.scriptp
    /\ heap = Pre.heap
    /\ \A j \in (FirstFailed + 1)..Len(ChildTrace) :
         /\ ChildTrace[j].err = ChildTrace[FirstFailed].err
         /\ ChildTrace[j].level < ChildTrace[j - 1].level

\* the second of three sub-scripts failed after the first had been decoded
\* and put into the list
C26_Witness ==
  /\ ScriptDecoded
  /\ Len(Original.children) = 3
  /\ Len(ChildTrace) = 2
  /\ ChildTrace[1] = ChildEv(CARDANO_SUCCESS, 0)
  /\ ChildTrace[2].err # CARDANO_SUCCESS
  /\ ChildTrace[2].level = 0
  /\ last.err = ChildTrace[2].err
  /\ heap = Pre.heap

\* C27: after any call of cardano_script_n_of_k_unref on a script, the
\* caller's pointer is null, as the header says of every call and not
\* only of the call that releases the last reference.
C27_UnrefAlwaysNulls ==
  (Called("unref") /\ last.kind = "script_n_of_k" /\ last.args[1] # NULL) =>
    scriptp[last.ptr] = NULL

(***************************************************************************)
(* Reference counts account for every holder.                              *)
(***************************************************************************)
ChildKinds == {"credential", "anchor"}

\* C28: whatever the caller has done with new, from_cbor, the getters, the
\* setters, ref and unref, releasing no reference it was not handed, the
\* count of every live credential and anchor is the number of certificates
\* that store it plus the number of references handed to the caller and
\* not released; so a live object has a positive count, and an object that
\* has been deallocated is stored by no certificate and owed to no caller.
\* A successful setter that replaces a value by another one raises the new
\* value's count by 1, lowers the old one's by 1 (deallocating it at 0),
\* stores the new value and changes nothing else.
C28_RefcountConservation ==
  /\ \A p \in Ids :
       /\ heap[p].kind \in ChildKinds =>
            /\ heap[p].ref_count = Cardinality(Holders(heap, p)) + last.handed[p]
            /\ heap[p].ref_count > 0
       /\ heap[p].kind = "free" =>
            /\ Holders(heap, p) = {}
            /\ last.handed[p] = 0
  /\ (SetterCalled /\ Succeeded /\ last.args[2] # OldValue) =>
       /\ CountChangedBy(last.args[2], 1)
       /\ OldValue # NULL =>
            IF Pre.heap[OldValue].ref_count = 1
              THEN heap[OldValue] = FreeObj
              ELSE CountChangedBy(OldValue, -1)
       /\ heap[Target] = Assigned(Pre.heap, last.args[2])[Target]
       /\ OthersUnchanged({Target, OldValue, last.args[2]})

\* a setter replaced a value that the certificate alone held by a value
\* the caller holds: the old one is deallocated, the new one is owed to
\* the caller and to the certificate
C28_Witness ==
  /\ SetterCalled
  /\ Succeeded
  /\ OldValue # NULL
  /\ last.args[2] # OldValue
  /\ Pre.heap[OldValue].ref_count = 1
  /\ heap[OldValue].kind = "free"
  /\ Holders(heap, last.args[2]) = {Target}
  /\ last.handed[last.args[2]] = 1
  /\ heap[last.args[2]].ref_count = 2

(***************************************************************************)
(* What a decoder hands over.                                              *)
(***************************************************************************)
\* the certificate the latest decoder call returned, and its children
DecodedCert == certp[last.ptr]
DecodedChildren == {heap[DecodedCert].credential, heap[DecodedCert].anchor} \ {NULL}

\* C29: when from_cbor of a certificate returns success, the certificate
\* has count 1 and the credential and, if present, the anchor it decoded
\* have count 1 each, held by the certificate alone -- the decoder has
\* released its own references and left nothing else behind -- so that one
\* unref of the certificate deallocates it and its children.
C29_SoleOwnershipAfterDecode ==
  /\ []((Decoded /\ Succeeded) =>
          /\ DecodedCert # NULL
          /\ Pre.heap[DecodedCert].kind = "free"
          /\ heap[DecodedCert].kind = last.kind
          /\ heap[DecodedCert].ref_count = 1
          /\ heap[DecodedCert].credential # NULL
          /\ \A c \in DecodedChildren :
               /\ Pre.heap[c].kind = "free"
               /\ heap[c].kind \in ChildKinds
               /\ heap[c].ref_count = 1
               /\ Holders(heap, c) = {DecodedCert}
          /\ OthersUnchanged(DecodedChildren \cup {DecodedCert}))
  /\ [][(Decoded /\ Succeeded /\ last'.op = "unref" /\ last'.ptr = last.ptr) =>
          /\ heap' = Pre.heap
          /\ certp'[last.ptr] = NULL]_vars

\* a decoder returned a certificate with a credential and an anchor
C29_Witness ==
  /\ Decoded
  /\ Succeeded
  /\ Cardinality(DecodedChildren) = 2
  /\ \A c \in DecodedChildren : heap[c].ref_count = 1
  /\ heap[DecodedCert].ref_count = 1

(***************************************************************************)
(* Null arguments.                                                         *)
(***************************************************************************)
\* the latest call was made on a null handle
OnNullHandle ==
  /\ last.op \in {"refcount", "ref", "unref", "get_credential", "get_anchor", "get_length"}
  /\ last.args[1] = NULL

\* the latest call was a codec call with a null certificate or writer, or
\* with a null reader or output pointer
NullCodecCall ==
  \/ Called("to_cbor") /\ (last.args[1] = NULL \/ last.args[2])
  \/ Called("from_cbor") /\ (last.args[1] \/ last.args[2])

\* C30: on a null certificate handle refcount returns 0, ref and unref
\* (also given a null pointer to the pointer) do nothing, get_credential
\* and get_anchor return null; to_cbor and from_cbor given a null
\* certificate, reader, writer or output pointer return the null-argument
\* error before any call on the reader or the writer; get_length of a null
\* n-of-k script is 0; and none of these calls changes an object, a count
\* or a pointer of the caller.
C30_NullTolerance ==
  /\ (OnNullHandle \/ NullCodecCall) =>
       /\ heap = Pre.heap
       /\ certp = Pre.certp
       /\ childp = Pre.childp
       /\ scriptp = Pre.scriptp
  /\ (OnNullHandle /\ last.op \in {"refcount", "get_length"}) => last.ret = 0
  /\ (OnNullHandle /\ last.op \in {"get_credential", "get_anchor", "unref"}) =>
       last.ret = NULL
  /\ NullCodecCall =>
       /\ last.err = CARDANO_ERROR_POINTER_IS_NULL
       /\ last.trace = <<>>
       /\ last.rd = reader
       /\ last.mid = <<>>
       /\ last.ret = NULL

\* from_cbor was given a reader on a valid encoding and a null output
\* pointer
C30_Witness ==
  /\ Called("from_cbor")
  /\ ~last.args[1]
  /\ last.args[2]
  /\ last.err = CARDANO_ERROR_POINTER_IS_NULL
  /\ Len(last.rd.toks) > 0
  /\ last.rd.pos = 1
  /\ \E i \in Ids : heap[i].kind = "update_drep_cert"

(***************************************************************************)
(* Sharing between holders.                                                *)
(***************************************************************************)
\* the references to object i that are outstanding: those of the holders'
\* pointers cp and kp and those of the objects of heap h
Outstanding(h, cp, kp, i) ==
  Cardinality({q \in CertPtrs : cp[q] = i})
    + Cardinality({k \in ChildPtrs : kp[k] = i})
    + Cardinality(Holders(h, i))

\* the objects the step deallocates
Deallocated == {i \in Ids : Live(heap, i) /\ ~Live(heap', i)}

\* C31: when holders share certificates and children and make their ref,
\* unref, get and set calls one whole call at a time, an object with an
\* outstanding reference is never deallocated and its count is the number
\* of those references, an object is deallocated by the call that releases
\* its last outstanding reference, a deallocated object is never touched
\* or deallocated again, and every object a call is given is live when the
\* call is made.
C31_SharingIsSafe ==
  /\ [](\A i \in Ids :
          IF Outstanding(heap, certp, childp, i) > 0
            THEN Live(heap, i) /\ heap[i].ref_count = Outstanding(heap, certp, childp, i)
            ELSE ~Live(heap, i))
  /\ [](\A n \in 1..Len(last.args) :
          last.args[n] # NULL => Live(Pre.heap, last.args[n]))
  /\ [][\A i \in Deallocated :
          /\ heap[i].ref_count = 1
          /\ Outstanding(heap, certp, childp, i) = 1
          /\ Outstanding(heap', certp', childp', i) = 0
          /\ last'.op \in {"unref", "child_unref", "set_credential", "set_anchor"}]_vars
  /\ [][\A i \in Ids : ~Live(heap, i) => heap'[i] = heap[i]]_vars

\* a holder gave up the last reference to its certificate, which was
\* deallocated, while the credential of that certificate lives on in the
\* other holder's certificate and in the child handle
C31_Witness ==
  /\ Called("unref")
  /\ Pre.heap[Target].ref_count = 1
  /\ ~Live(heap, Target)
  /\ certp[Other(last.ptr)] # NULL
  /\ heap[certp[Other(last.ptr)]].credential = Pre.heap[Target].credential
  /\ childp["c"] = Pre.heap[Target].credential
  /\ heap[childp["c"]].ref_count = 2

====
